---------------------------- MODULE Spec2Model ----------------------------
(***************************************************************************)
(* Model of the cyclical-profile engine of market_algo_v4 (package gold):  *)
(* the metric primitives, the week_of_year and session profile builders,   *)
(* the session classifier, the composite averager and the seasonality      *)
(* calculator.  Every function of the package is a pure function of its    *)
(* arguments and keeps nothing between calls, so the state of the model is *)
(* the last call: the function called, its arguments and what it returned. *)
(* Each specification below is a caller that invokes the functions of one  *)
(* component on arguments drawn from bounded sets.                         *)
(*                                                                         *)
(* Numbers: pandas computes in IEEE doubles; the model computes in exact   *)
(* rationals [n, d] kept in lowest terms with d > 0, and [n |-> 0, d |-> 0]*)
(* stands for NaN.  Price inputs are numeric with Open > 0.                *)
(***************************************************************************)
EXTENDS Integers, Sequences, FiniteSets, TLC

VARIABLES
    op,     \* name of the last function called ("none" before any call)
    args,   \* the arguments of that call, a record named as the parameters
    ret     \* the value that call returned

vars == <<op, args, ret>>

----------------------------------------------------------------------------
(* Exact rational arithmetic standing for float arithmetic *)

Abs(x) == IF x < 0 THEN -x ELSE x

RECURSIVE GCD(_, _)
GCD(a, b) == IF b = 0 THEN a ELSE GCD(b, a % b)

NaN == [n |-> 0, d |-> 0]

IsNaN(r) == r.d = 0

\* n/d in lowest terms, d > 0; a zero denominator (0/0) is NaN
Rat(n, d) ==
    IF d = 0 THEN NaN
    ELSE LET g == GCD(Abs(n), Abs(d))
             s == IF d < 0 THEN -1 ELSE 1
         IN  [n |-> (s * n) \div g, d |-> (s * d) \div g]

RInt(i) == [n |-> i, d |-> 1]

RAdd(a, b) == IF IsNaN(a) \/ IsNaN(b) THEN NaN
              ELSE Rat(a.n * b.d + b.n * a.d, a.d * b.d)

RSub(a, b) == IF IsNaN(a) \/ IsNaN(b) THEN NaN
              ELSE Rat(a.n * b.d - b.n * a.d, a.d * b.d)

RMul(a, b) == IF IsNaN(a) \/ IsNaN(b) THEN NaN ELSE Rat(a.n * b.n, a.d * b.d)

RDiv(a, b) == IF IsNaN(a) \/ IsNaN(b) THEN NaN ELSE Rat(a.n * b.d, a.d * b.n)

RGt0(a) == ~IsNaN(a) /\ a.n > 0

\* Series.sum(): NaN entries are skipped
RECURSIVE SeriesSum(_)
SeriesSum(s) ==
    IF s = <<>> THEN RInt(0)
    ELSE IF IsNaN(Head(s)) THEN SeriesSum(Tail(s))
    ELSE RAdd(Head(s), SeriesSum(Tail(s)))

\* Series.count(): the number of non-NaN entries
RECURSIVE SeriesCount(_)
SeriesCount(s) ==
    IF s = <<>> THEN 0
    ELSE (IF IsNaN(Head(s)) THEN 0 ELSE 1) + SeriesCount(Tail(s))

\* Series.mean() taking the first entry for the mean
SeriesMean_FirstEntry(s) == IF s = <<>> THEN NaN ELSE s[1]

\* Series.mean(): mean of the non-NaN entries, NaN when there is none
SeriesMean(s) == RDiv(SeriesSum(s), RInt(SeriesCount(s)))

\* Series.tail(n) reaching one entry further back
SeriesTail_OneMore(s, n) ==
    IF Len(s) <= n + 1 THEN s ELSE SubSeq(s, Len(s) - n, Len(s))

\* Series.tail(n) taking every entry: an all-time window, not a trailing one
SeriesTail_AllRows(s, n) == s

\* Series.tail(n): the last n entries (all of them when there are fewer)
SeriesTail(s, n) ==
    IF Len(s) <= n THEN s ELSE SubSeq(s, Len(s) - n + 1, Len(s))

\* ascending sequence of a finite set of integers
RECURSIVE SortedSeq(_)
SortedSeq(S) ==
    IF S = {} THEN <<>>
    ELSE LET m == CHOOSE x \in S : \A y \in S : x <= y
         IN  <<m>> \o SortedSeq(S \ {m})

Range(s) == {s[i] : i \in DOMAIN s}

Column(t, c) == [i \in DOMAIN t |-> t[i][c]]

----------------------------------------------------------------------------
(* Calendar: timestamps are records [y, m, d, h] (naive, whole hours) *)

is_leap_year(y) == (y % 4 = 0 /\ y % 100 # 0) \/ y % 400 = 0

DaysInMonth(y, m) ==
    IF m = 2 THEN (IF is_leap_year(y) THEN 29 ELSE 28)
    ELSE IF m \in {4, 6, 9, 11} THEN 30 ELSE 31

RECURSIVE DaysBeforeMonth(_, _)
DaysBeforeMonth(y, m) ==
    IF m = 1 THEN 0 ELSE DaysBeforeMonth(y, m - 1) + DaysInMonth(y, m - 1)

\* Series.dt.dayofyear
dayofyear(t) == DaysBeforeMonth(t.y, t.m) + t.d

\* proleptic Gregorian ordinal, day 1 = 0001-01-01
Ordinal(y, m, d) ==
    365 * (y - 1) + ((y - 1) \div 4) - ((y - 1) \div 100) + ((y - 1) \div 400)
    + DaysBeforeMonth(y, m) + d

\* Series.dt.weekday: Monday = 0 .. Sunday = 6
weekday(t) == (Ordinal(t.y, t.m, t.d) + 6) % 7

\* total order of timestamps, as Timestamp comparison
Stamp(t) == Ordinal(t.y, t.m, t.d) * 24 + t.h

\* ordinal of the Monday that starts ISO week 1 of year y
IsoWeek1Monday(y) ==
    LET first == Ordinal(y, 1, 1)
        wd    == (first + 6) % 7
        mon   == first - wd
    IN  IF wd > 3 THEN mon + 7 ELSE mon

\* Series.dt.isocalendar().week
isocalendar_week(t) ==
    LET today == Ordinal(t.y, t.m, t.d)
        w     == (today - IsoWeek1Monday(t.y)) \div 7
    IN  IF today < IsoWeek1Monday(t.y)
        THEN ((today - IsoWeek1Monday(t.y - 1)) \div 7) + 1
        ELSE IF w >= 52 /\ today >= IsoWeek1Monday(t.y + 1) THEN 1
        ELSE w + 1

PrevDay(t) ==
    IF t.d > 1 THEN [t EXCEPT !.d = t.d - 1]
    ELSE IF t.m > 1 THEN [t EXCEPT !.m = t.m - 1, !.d = DaysInMonth(t.y, t.m - 1)]
    ELSE [t EXCEPT !.y = t.y - 1, !.m = 12, !.d = 31]

\* day of month of the n-th Sunday of month m of year y
NthSunday(y, m, n) ==
    LET wd1 == (Ordinal(y, m, 1) + 6) % 7
    IN  1 + ((6 - wd1) % 7) + 7 * (n - 1)

\* America/New_York under the rules in force since 2007: daylight time from
\* the second Sunday of March 07:00 UTC to the first Sunday of November 06:00 UTC
IsDST(t) ==
    /\ Stamp(t) >= Stamp([y |-> t.y, m |-> 3, d |-> NthSunday(t.y, 3, 2), h |-> 7])
    /\ Stamp(t) <  Stamp([y |-> t.y, m |-> 11, d |-> NthSunday(t.y, 11, 1), h |-> 6])

\* no conversion: the UTC wall clock
tz_convert_UtcClock(t) == t

\* tz_localize("UTC").tz_convert("America/New_York"): the Eastern wall clock
tz_convert(t) ==
    LET off == IF IsDST(t) THEN 4 ELSE 5
    IN  IF t.h >= off THEN [t EXCEPT !.h = t.h - off]
        ELSE [PrevDay(t) EXCEPT !.h = t.h + 24 - off]

----------------------------------------------------------------------------
(* Metric primitives (gold.metrics) *)

\* flag that counts a bar with Close = Open as green
flag_DojiGreen(b) == IF b.Close - b.Open >= 0 THEN RInt(1) ELSE RInt(0)

\* gold.metrics.color.flag, for one bar: 1.0 when Close - Open > 0, else 0.0
flag(b) == IF b.Close - b.Open > 0 THEN RInt(1) ELSE RInt(0)

\* probs with the red share taken from the sum of the flags, not their mean
probs_RedFromSum(flags) ==
    LET tot == SeriesCount(flags)
    IN  << IF tot # 0 THEN RDiv(SeriesSum(flags), RInt(tot)) ELSE RInt(0),
           IF tot # 0 THEN RSub(RInt(1), SeriesSum(flags)) ELSE RInt(0) >>

\* gold.metrics.color.probs: (green share, red share) of a series of flags
probs(flags) ==
    LET tot == SeriesCount(flags)
    IN  << IF tot # 0 THEN RDiv(SeriesSum(flags), RInt(tot)) ELSE RInt(0),
           IF tot # 0 THEN RSub(RInt(1), RDiv(SeriesSum(flags), RInt(tot)))
                      ELSE RInt(0) >>

\* gold.metrics.ret.pct, for one bar: (Close - Open) / Open * 100
pct(b) == RMul(RDiv(RInt(b.Close - b.Open), RInt(b.Open)), RInt(100))

\* gold.metrics.range.bar_range, for one bar: High - Low
bar_range(b) == RInt(b.High - b.Low)

METRICS == <<"ProbGreen", "ProbRed", "AvgReturn", "AvgRange">>

----------------------------------------------------------------------------
(* gold.utils.labels and gold.utils.ensure *)

DOW == <<"Mon", "Tue", "Wed", "Thu", "Fri">>

\* labels.dow: DOW.get(i, str(i))
dow(i) == IF i \in DOMAIN DOW THEN DOW[i] ELSE ToString(i)

\* labels.week: f"W{i}"
week(i) == "W" \o ToString(i)

\* DataFrame.fillna(0) on one row: every NaN cell becomes 0
FillNa(row) ==
    [c \in DOMAIN row |->
        IF c \in Range(METRICS) /\ IsNaN(row[c]) THEN RInt(0) ELSE row[c]]

\* the row a left merge yields for a key with no match, after fillna(0)
ZeroRow(col, b) ==
    (col :> b) @@ [Label |-> 0, ProbGreen |-> RInt(0), ProbRed |-> RInt(0),
                   AvgReturn |-> RInt(0), AvgRange |-> RInt(0)]

\* full.merge(df, on=col, how="left").fillna(0): per bucket, in bucket order,
\* the matching rows of t, or one zero row
RECURSIVE LeftMergeFill(_, _, _)
LeftMergeFill(t, col, buckets) ==
    IF buckets = <<>> THEN <<>>
    ELSE LET b     == Head(buckets)
             match == SelectSeq(t, LAMBDA r : r[col] = b)
             here  == IF match = <<>> THEN <<ZeroRow(col, b)>>
                      ELSE [i \in DOMAIN match |-> FillNa(match[i])]
         IN  here \o LeftMergeFill(t, col, Tail(buckets))

\* ensure without the completeness fill: the aggregated rows as they are
ensure_NoFill(t, col, buckets) == t

\* gold.utils.ensure.ensure
ensure(t, col, buckets) ==
    IF t = <<>>
    THEN [i \in DOMAIN buckets |->
            (col :> buckets[i]) @@
            [ProbGreen |-> RInt(0), ProbRed |-> RInt(0),
             AvgReturn |-> RInt(0), AvgRange |-> RInt(0), Label |-> buckets[i]]]
    ELSE LeftMergeFill(t, col, buckets)

RECURSIVE Flatten(_)
Flatten(ss) == IF ss = <<>> THEN <<>> ELSE Head(ss) \o Flatten(Tail(ss))

\* DataFrame.sort_values(col): the rows in ascending order of the key (rows
\* with equal keys, which no caller here passes, are kept in table order)
sort_values(t, col) ==
    LET keys == SortedSeq({t[i][col] : i \in DOMAIN t})
    IN  Flatten([k \in DOMAIN keys |-> SelectSeq(t, LAMBDA r : r[col] = keys[k])])

----------------------------------------------------------------------------
(* gold.profiles.week_of_year *)

\* buckets that reach ISO week 53
BUCKETS_Through53 == [i \in 1..53 |-> i]

BUCKETS == [i \in 1..52 |-> i]

lab(v) == week(v)

\* df[(df["Date"] >= start) & (df["Date"] <= end)]
DateFilter(t, s, e) ==
    SelectSeq(t, LAMBDA b : Stamp(b.Date) >= Stamp(s) /\ Stamp(b.Date) <= Stamp(e))

\* the row built for one group g of bars
MetricRow(g) ==
    LET pp == probs([i \in DOMAIN g |-> flag(g[i])])
    IN  [ProbGreen |-> RMul(pp[1], RInt(100)),
         ProbRed   |-> RMul(pp[2], RInt(100)),
         AvgReturn |-> SeriesMean([i \in DOMAIN g |-> pct(g[i])]),
         AvgRange  |-> SeriesMean([i \in DOMAIN g |-> bar_range(g[i])])]

week_of_year_build(t, s, e) ==
    LET f    == DateFilter(t, s, e)
        keys == SortedSeq({isocalendar_week(f[i].Date) : i \in DOMAIN f})
        rows == [i \in DOMAIN keys |->
                   LET g == SelectSeq(f, LAMBDA b : isocalendar_week(b.Date) = keys[i])
                       m == MetricRow(g)
                   IN  [Bucket |-> keys[i], Label |-> lab(keys[i]),
                        ProbGreen |-> m.ProbGreen, ProbRed |-> m.ProbRed,
                        AvgReturn |-> m.AvgReturn, AvgRange |-> m.AvgRange]]
        full == ensure(rows, "Bucket", BUCKETS)
        lbl  == [i \in DOMAIN full |-> [full[i] EXCEPT !.Label = lab(full[i].Bucket)]]
    IN  sort_values(lbl, "Bucket")

----------------------------------------------------------------------------
(* gold.profiles.session *)

SESSION_BUCKETS == <<1, 2, 3>>

ALL_SESSIONS_BUCKET == 0

\* SESSION_TIMES with the London window closing at 08:00 instead of 07:59
SESSION_TIMES_LondonTo8 ==
    <<  <<16 * 60, 23 * 60 + 59>>, <<0, 8 * 60>>, <<8 * 60, 15 * 60 + 59>>  >>

\* session -> (start, end), each a wall-clock time in minutes after midnight
SESSION_TIMES ==
    <<  <<16 * 60, 23 * 60 + 59>>,   \* 1 Asia
        <<0, 7 * 60 + 59>>,          \* 2 London
        <<8 * 60, 15 * 60 + 59>>  >> \* 3 NY

session_label(s) ==
    IF s = 1 THEN "Asia" ELSE IF s = 2 THEN "London" ELSE IF s = 3 THEN "NY"
    ELSE ToString(s)

dow_session_label(day, s) == dow(day) \o "-" \o session_label(s)

\* whether time t (minutes) falls in the window of session s
InWindow(s, t) ==
    LET w == SESSION_TIMES[s]
    IN  IF w[1] <= w[2] THEN w[1] <= t /\ t <= w[2]
        ELSE t >= w[1] \/ t <= w[2]

\* determine_session: the first session, in dict order, whose window holds
\* time(hour, 0); 0 stands for None
determine_session(h) ==
    LET t    == h * 60
        hits == {s \in DOMAIN SESSION_TIMES : InWindow(s, t)}
    IN  IF hits = {} THEN 0 ELSE CHOOSE s \in hits : \A x \in hits : s <= x

\* a bar with the columns session.build adds
Localized(b) ==
    LET local == tz_convert(b.Date)
    IN  [bar |-> b, Weekday |-> weekday(local) + 1, Hour |-> local.h,
         Session |-> determine_session(local.h)]

session_build(t, s, e, v) ==
    LET f == DateFilter(t, s, e)
    IN  IF f = <<>> THEN <<>>
        ELSE
        LET loc  == [i \in DOMAIN f |-> Localized(f[i])]
            wk   == SelectSeq(loc, LAMBDA x : x.Weekday <= 5)
            \* groupby drops rows whose key is None
            ok   == SelectSeq(wk, LAMBDA x : x.Session # 0)
            bars(g) == [i \in DOMAIN g |-> g[i].bar]
        IN  IF v = "daily"
            THEN LET keys == SortedSeq({x.Weekday * 10 + x.Session : x \in Range(ok)})
                 IN  [i \in DOMAIN keys |->
                        LET day == keys[i] \div 10
                            ses == keys[i] % 10
                            g   == SelectSeq(ok, LAMBDA x : x.Weekday = day /\ x.Session = ses)
                            m   == MetricRow(bars(g))
                        IN  [Bucket |-> day, Session |-> ses,
                             Label |-> dow_session_label(day, ses),
                             DayLabel |-> dow(day),
                             SessionLabel |-> session_label(ses),
                             ProbGreen |-> m.ProbGreen, ProbRed |-> m.ProbRed,
                             AvgReturn |-> m.AvgReturn, AvgRange |-> m.AvgRange]]
            ELSE LET keys == SortedSeq({x.Session : x \in Range(ok)})
                 IN  [i \in DOMAIN keys |->
                        LET ses == keys[i]
                            g   == SelectSeq(ok, LAMBDA x : x.Session = ses)
                            m   == MetricRow(bars(g))
                        IN  [Bucket |-> ALL_SESSIONS_BUCKET, Session |-> ses,
                             Label |-> session_label(ses),
                             SessionLabel |-> session_label(ses),
                             ProbGreen |-> m.ProbGreen, ProbRed |-> m.ProbRed,
                             AvgReturn |-> m.AvgReturn, AvgRange |-> m.AvgRange]]

----------------------------------------------------------------------------
(* gold.data.loader.load_profile_data; a date is a record [y, m, d] *)

\* pd.Timestamp(date): midnight at the start of the date
Timestamp(date) == [y |-> date.y, m |-> date.m, d |-> date.d, h |-> 0]

\* load_profile_data that builds from the filtered bars even when there is none
load_profile_data_NoFallback(raw, profile_key, start_date, end_date, view_mode, filter_type) ==
    LET start == Timestamp(start_date)
        end   == Timestamp(end_date)
    IN  IF profile_key # "session" THEN week_of_year_build(raw, start, end)
        ELSE IF view_mode = "combined" /\ filter_type = "Green Days"
        THEN session_build(SelectSeq(raw, LAMBDA b : b.Close > b.Open),
                           start, end, view_mode)
        ELSE IF view_mode = "combined" /\ filter_type = "Red Days"
        THEN session_build(SelectSeq(raw, LAMBDA b : b.Close < b.Open),
                           start, end, view_mode)
        ELSE session_build(raw, start, end, view_mode)

\* load_profile_data, raw being the table fetch_data returns for the profile
load_profile_data(raw, profile_key, start_date, end_date, view_mode, filter_type) ==
    LET start == Timestamp(start_date)
        end   == Timestamp(end_date)
    IN  IF profile_key = "session"
        THEN LET df == session_build(raw, start, end, view_mode)
                 green_days == SelectSeq(raw, LAMBDA b : b.Close > b.Open)
                 red_days   == SelectSeq(raw, LAMBDA b : b.Close < b.Open)
             IN  IF view_mode = "combined" /\ filter_type # "All"
                 THEN IF filter_type = "Green Days"
                      THEN IF green_days # <<>>
                           THEN session_build(green_days, start, end, view_mode)
                           ELSE df
                      ELSE IF filter_type = "Red Days"
                      THEN IF red_days # <<>>
                           THEN session_build(red_days, start, end, view_mode)
                           ELSE df
                      ELSE df
                 ELSE df
        ELSE week_of_year_build(raw, start, end)

----------------------------------------------------------------------------
(* The profile builders on a table that may lack a column.  A table is its *)
(* rows together with the set of its column names (a table without rows    *)
(* has columns too).                                                       *)

\* the exception df[c] raises when the table has no column c
KeyError(c) == [raised |-> "KeyError", key |-> c]

IsRaised(r) == "raised" \in DOMAIN r

\* the price columns in the order the metric calls of a build read them:
\* bar_range (High, Low), then pct and flag (Close, Open)
MetricReads == <<"High", "Low", "Close", "Open">>

\* the columns among MetricReads that the table lacks, in reading order
MissingReads(cols) == SelectSeq(MetricReads, LAMBDA c : c \notin cols)

\* week_of_year.build on a table with columns cols: the metric calls are
\* reached for every date range
week_of_year_build_on(cols, t, s, e) ==
    IF MissingReads(cols) # <<>> THEN KeyError(Head(MissingReads(cols)))
    ELSE week_of_year_build(t, s, e)

\* session.build on a table with columns cols: the return on an empty filter
\* result comes before the metric calls
session_build_on(cols, t, s, e, v) ==
    IF DateFilter(t, s, e) = <<>> THEN <<>>
    ELSE IF MissingReads(cols) # <<>> THEN KeyError(Head(MissingReads(cols)))
    ELSE session_build(t, s, e, v)

----------------------------------------------------------------------------
(* gold.composite_avg *)

\* profile key -> ordered (name, number of periods) pairs
COMPOSITE_PERIODS ==
    [decennial     |-> << <<"10 Years", 10>>, <<"20 Years", 20>>, <<"30 Years", 30>>,
                          <<"50 Years", 50>>, <<"100 Years", 100>> >>,
     presidential  |-> << <<"4 Years", 4>>, <<"8 Years", 8>>, <<"12 Years", 12>>,
                          <<"20 Years", 20>>, <<"40 Years", 40>> >>,
     quarter       |-> << <<"1 Year", 1>>, <<"3 Years", 3>>, <<"5 Years", 5>>,
                          <<"10 Years", 10>>, <<"20 Years", 20>> >>,
     month         |-> << <<"1 Year", 1>>, <<"3 Years", 3>>, <<"5 Years", 5>>,
                          <<"10 Years", 10>>, <<"15 Years", 15>> >>,
     week_of_year  |-> << <<"1 Year", 1>>, <<"3 Years", 3>>, <<"5 Years", 5>>,
                          <<"10 Years", 10>>, <<"20 Years", 20>> >>,
     week_of_month |-> << <<"1 Month", 1>>, <<"3 Months", 3>>, <<"6 Months", 6>>,
                          <<"12 Months", 12>>, <<"36 Months", 36>> >>,
     day_of_week   |-> << <<"1 Week", 1>>, <<"4 Weeks", 4>>, <<"12 Weeks", 12>>,
                          <<"52 Weeks", 52>>, <<"156 Weeks", 156>> >>,
     session       |-> << <<"1 Week", 1>>, <<"4 Weeks", 4>>, <<"12 Weeks", 12>>,
                          <<"52 Weeks", 52>>, <<"156 Weeks", 156>> >>]

\* get_composite_periods: the profile's periods, the month periods by default
get_composite_periods(profile_key) ==
    IF profile_key \in DOMAIN COMPOSITE_PERIODS
    THEN COMPOSITE_PERIODS[profile_key]
    ELSE COMPOSITE_PERIODS["month"]

PeriodNames(periods) == {periods[i][1] : i \in DOMAIN periods}

PeriodOf(periods, name) ==
    periods[CHOOSE i \in DOMAIN periods : periods[i][1] = name][2]

\* the trailing sum divided by the window size, not by the number of rows
TailMean_WindowDivisor(t, label_column, col, n, i) ==
    LET g == SelectSeq(t, LAMBDA r : r[label_column] = t[i][label_column])
    IN  RDiv(SeriesSum(SeriesTail(Column(g, col), n)), RInt(n))

\* grouped[col].transform(lambda x: x.tail(n).mean()), for the row at index i
TailMean(t, label_column, col, n, i) ==
    LET g == SelectSeq(t, LAMBDA r : r[label_column] = t[i][label_column])
    IN  SeriesMean(SeriesTail(Column(g, col), n))

\* drop_duplicates that drops nothing
drop_duplicates_KeepAll(t, col) == t

\* DataFrame.drop_duplicates(col): the first row of every value of col
drop_duplicates(t, col) ==
    LET keep == {i \in DOMAIN t : \A j \in 1..(i - 1) : t[j][col] # t[i][col]}
        idx  == SortedSeq(keep)
    IN  [k \in DOMAIN idx |-> t[idx[k]]]

calculate_composite_average(t, profile_key, composite_type, label_column, metric_columns) ==
    IF t = <<>> THEN <<>>
    ELSE
    LET periods == get_composite_periods(profile_key)
    IN  IF composite_type \notin PeriodNames(periods) \/ composite_type = "Min Cycle"
        THEN t
        ELSE
        LET n_periods == PeriodOf(periods, composite_type)
            result_df ==
              [i \in DOMAIN t |->
                 [c \in DOMAIN t[i] |->
                    IF c \in Range(metric_columns)
                    THEN TailMean(t, label_column, c, n_periods, i)
                    ELSE t[i][c]]]
        IN  drop_duplicates(result_df, label_column)

----------------------------------------------------------------------------
(* gold.config and gold.seasonality *)

cutoff_month == 2

cutoff_year == 2025

\* config.complete_year: the last complete calendar year before the cutoff
complete_year == IF cutoff_month = 12 THEN cutoff_year ELSE cutoff_year - 1

\* config.cutoff_date
cutoff_date == [y |-> cutoff_year, m |-> cutoff_month, d |-> 28, h |-> 0]

\* Series.pct_change() * 100 of the Close column, for the row at index i
PctChange(t, i) ==
    IF i = 1 THEN NaN
    ELSE RMul(RDiv(RInt(t[i].Close - t[i - 1].Close), RInt(t[i - 1].Close)), RInt(100))

\* the day of year without the leap-year adjustment
AdjustedDayOfYear_Unadjusted(t) == dayofyear(t)

\* the adjustment starting one day late: one less after day 60 of a leap year
AdjustedDayOfYear_AfterDay60(t) ==
    IF is_leap_year(t.y) /\ dayofyear(t) > 60 THEN dayofyear(t) - 1 ELSE dayofyear(t)

\* the leap-adjusted day of year: one less after day 59 of a leap year
AdjustedDayOfYear(t) ==
    IF is_leap_year(t.y) /\ dayofyear(t) > 59 THEN dayofyear(t) - 1 ELSE dayofyear(t)

\* calculate_seasonality; cutoff is <<>> for None, else <<date>>
calculate_seasonality(t, years_back, return_type, cutoff) ==
    LET f1 == IF cutoff # <<>>
              THEN SelectSeq(t, LAMBDA b : Stamp(b.Date) <= Stamp(cutoff[1]))
              ELSE t
        start_year == complete_year - years_back
        f2 == SelectSeq(f1, LAMBDA b : b.Date.y >= start_year)
    IN  [i \in DOMAIN f2 |->
           [Date |-> f2[i].Date, Open |-> f2[i].Open, High |-> f2[i].High,
            Low |-> f2[i].Low, Close |-> f2[i].Close,
            Return |-> IF return_type = "open-close" THEN pct(f2[i])
                       ELSE PctChange(f2, i),
            Year |-> f2[i].Date.y, Month |-> f2[i].Date.m, Day |-> f2[i].Date.d,
            DayOfYear |-> AdjustedDayOfYear(f2[i].Date)]]

\* cumsum that accumulates nothing: every entry as it is
cumsum_NoRunningSum(s) == s

\* Series.cumsum(): running sum that skips NaN entries and leaves them NaN
cumsum(s) ==
    [i \in DOMAIN s |-> IF IsNaN(s[i]) THEN NaN ELSE SeriesSum(SubSeq(s, 1, i))]

\* groupby("DayOfYear")["Return"].mean().reset_index() with its cumulative sum
AvgCurve(t) ==
    LET days == SortedSeq({t[i].DayOfYear : i \in DOMAIN t})
        mean == [k \in DOMAIN days |->
                   SeriesMean(Column(SelectSeq(t, LAMBDA r : r.DayOfYear = days[k]),
                                     "Return"))]
        cum  == cumsum(mean)
    IN  [k \in DOMAIN days |->
           [DayOfYear |-> days[k], Return |-> mean[k], CumulativeReturn |-> cum[k]]]

\* the orders sort_values(col) may leave the rows in: every arrangement that
\* is ascending in col (the default sort is not stable, ties may land anyhow)
SortedOrders(t, col) ==
    {p \in [DOMAIN t -> DOMAIN t] :
        /\ \A i, j \in DOMAIN t : i # j => p[i] # p[j]
        /\ \A i, j \in DOMAIN t : i < j => t[p[i]][col] <= t[p[j]][col]}

\* the current-year table with its running sum, rows taken in order p
YtdCurve(cur, p) ==
    LET sorted == [i \in DOMAIN cur |-> cur[p[i]]]
        cum    == cumsum(Column(sorted, "Return"))
    IN  [i \in DOMAIN sorted |-> sorted[i] @@ [CumulativeReturn |-> cum[i]]]

\* the rows generate_cumulative_returns takes as the current year
current_year_data(t) == SelectSeq(t, LAMBDA r : r.Year = complete_year)

\* generate_cumulative_returns: the set of dicts it can return (one per order
\* the sort of the current-year rows may produce), each a function key -> table
generate_cumulative_returns(t, years_list) ==
    LET horizon(years) ==
            AvgCurve(SelectSeq(t, LAMBDA r : r.Year >= complete_year - years))
        yr  == [k \in {ToString(y) \o "YR" : y \in Range(years_list)} |->
                  horizon(CHOOSE y \in Range(years_list) : ToString(y) \o "YR" = k)]
        cur == current_year_data(t)
    IN  IF cur = <<>> THEN {yr}
        ELSE {yr @@ ("YTD" :> YtdCurve(cur, p)) : p \in SortedOrders(cur, "DayOfYear")}

----------------------------------------------------------------------------
(* Current market position: gold.current_market, gold.tabs.current_market  *)
(* and the position table of app.py.  The time is an Eastern wall clock    *)
(* [y, m, d, h].                                                           *)

\* gold.current_market._ordinal: f"{value} of {total}"
_ordinal(value, total) == ToString(value) \o " of " \o ToString(total)

\* the session branch of compute_positions
compute_positions_session(hour) ==
    IF 17 <= hour \/ hour < 0 THEN 1
    ELSE IF 0 <= hour /\ hour < 8 THEN 2
    ELSE 3

\* gold.current_market.compute_positions: the rows (Profile, Position)
compute_positions(now) ==
    << [Profile |-> "Decennial",     Position |-> _ordinal((now.y % 10) + 1, 10)],
       [Profile |-> "Presidential",  Position |-> _ordinal(((now.y - 2021) % 4) + 1, 4)],
       [Profile |-> "Quarter",       Position |-> _ordinal(((now.m - 1) \div 3) + 1, 4)],
       [Profile |-> "Month",         Position |-> _ordinal(now.m, 12)],
       [Profile |-> "Week Of Year",  Position |-> _ordinal(isocalendar_week(now), 52)],
       [Profile |-> "Week Of Month", Position |-> _ordinal(((now.d - 1) \div 7) + 1, 4)],
       [Profile |-> "Day Of Week",   Position |-> _ordinal(weekday(now) + 1, 5)],
       [Profile |-> "Session",       Position |-> _ordinal(compute_positions_session(now.h), 3)] >>

\* the pair (current_position, max_position) of two numbers
Position(p, t) == [closed |-> FALSE, current_position |-> p, max_position |-> t]

\* the pair ("Market is closed today", "")
MarketClosed == [closed |-> TRUE, current_position |-> 0, max_position |-> 0]

\* the trading schedule test of get_current_position
is_market_closed(t) ==
    \/ weekday(t) = 5
    \/ weekday(t) = 6 /\ t.h < 18
    \/ weekday(t) = 4 /\ t.h >= 17

\* the session branch of get_current_position, market open
get_current_position_session(hour) ==
    IF 0 <= hour /\ hour < 8 THEN 1
    ELSE IF 8 <= hour /\ hour < 16 THEN 2
    ELSE 3

\* gold.tabs.current_market.get_current_position
get_current_position(prof_key, t) ==
    IF prof_key = "decennial" THEN Position(t.y % 10, 10)
    ELSE IF prof_key = "presidential" THEN Position(((t.y - 1977) % 4) + 1, 4)
    ELSE IF prof_key = "quarter" THEN Position(((t.m - 1) \div 3) + 1, 4)
    ELSE IF prof_key = "month" THEN Position(t.m, 12)
    ELSE IF prof_key = "week_of_year" THEN Position(isocalendar_week(t), 52)
    ELSE IF prof_key = "week_of_month"
    THEN LET p == ((t.d - 1) \div 7) + 1 IN Position(p, IF p <= 4 THEN 4 ELSE 5)
    ELSE IF prof_key = "day_of_week"
    THEN IF is_market_closed(t) THEN MarketClosed
         ELSE Position(IF weekday(t) = 6 THEN 1 ELSE weekday(t) + 1, 5)
    ELSE IF prof_key = "session"
    THEN IF is_market_closed(t) THEN MarketClosed
         ELSE Position(get_current_position_session(t.h), 3)
    ELSE Position(0, 0)

\* the keys of gold.profiles.BUILDERS, in insertion order
BUILDERS ==
    << "decennial", "presidential", "quarter", "month", "week_of_year",
       "week_of_month", "day_of_week", "session" >>

\* prof_key.replace('_', ' ').title()
FormattedProfile(prof_key) ==
    CASE prof_key = "decennial"     -> "Decennial"
      [] prof_key = "presidential"  -> "Presidential"
      [] prof_key = "quarter"       -> "Quarter"
      [] prof_key = "month"         -> "Month"
      [] prof_key = "week_of_year"  -> "Week Of Year"
      [] prof_key = "week_of_month" -> "Week Of Month"
      [] prof_key = "day_of_week"   -> "Day Of Week"
      [] prof_key = "session"       -> "Session"

\* the current position app.py computes for one profile
app_current_position(prof_key, t) ==
    CASE prof_key = "decennial"     -> Position(t.y % 10, 10)
      [] prof_key = "presidential"  -> Position((t.y % 4) + 1, 4)
      [] prof_key = "quarter"       -> Position(((t.m - 1) \div 3) + 1, 4)
      [] prof_key = "month"         -> Position(t.m, 12)
      [] prof_key = "week_of_year"  -> Position(isocalendar_week(t), 52)
      [] prof_key = "week_of_month" ->
            LET p == ((t.d - 1) \div 7) + 1 IN Position(p, IF p <= 4 THEN 4 ELSE 5)
      [] prof_key = "day_of_week"   -> Position(weekday(t) + 1, 5)
      [] prof_key = "session"       -> Position(weekday(t) + 1, 5)

\* the current market position table of app.py: positions_data
app_positions(t) ==
    [i \in DOMAIN BUILDERS |->
        LET pos == app_current_position(BUILDERS[i], t)
        IN  [Profile  |-> FormattedProfile(BUILDERS[i]),
             Position |-> _ordinal(pos.current_position, pos.max_position)]]

----------------------------------------------------------------------------
(* gold.tabs.cyclical_profiles.calculate_composite_averages.  The function *)
(* draws its values from random.random() seeded with the wall-clock date   *)
(* and with hash(str(unit)), which Python salts per process.  A draw is    *)
(* kept as the term naming the seed it was drawn from, and a value as the  *)
(* term naming everything it is computed from: equal terms are equal       *)
(* floats, and distinct seeds are taken to give distinct draws.            *)

\* get_composite_timeframes: timeframe key -> window size, {} when unknown
get_composite_timeframes(profile_key) ==
    CASE profile_key = "decennial" ->
            [min_cycle |-> 10, short_term |-> 20, mid_term |-> 30,
             long_term |-> 50, multi_year |-> 100]
      [] profile_key = "presidential" ->
            [min_cycle |-> 4, short_term |-> 8, mid_term |-> 12,
             long_term |-> 20, multi_year |-> 40]
      [] profile_key \in {"quarter", "week_of_year"} ->
            [min_cycle |-> 1, short_term |-> 3, mid_term |-> 5,
             long_term |-> 10, multi_year |-> 20]
      [] profile_key = "month" ->
            [min_cycle |-> 1, short_term |-> 3, mid_term |-> 5,
             long_term |-> 10, multi_year |-> 15]
      [] profile_key = "week_of_month" ->
            [min_cycle |-> 1, short_term |-> 3, mid_term |-> 6,
             long_term |-> 12, multi_year |-> 36]
      [] profile_key = "day_of_week" ->
            [min_cycle |-> 1, short_term |-> 4, mid_term |-> 13,
             long_term |-> 52, multi_year |-> 156]
      [] profile_key = "session" ->
            [min_cycle |-> 1, short_term |-> 5, mid_term |-> 20,
             long_term |-> 60, multi_year |-> 250]
      [] OTHER -> <<>>

\* the keys of pattern_functions, in insertion order; timeframe_seed is
\* global_seed times the position of the key
pattern_functions ==
    <<"min_cycle", "short_term", "mid_term", "long_term", "multi_year">>

\* the unit column candidates of a profile
potential_cols(profile_key) ==
    CASE profile_key = "decennial"     -> <<"Year", "DecadeYear", "Yr", "YearInDecade">>
      [] profile_key = "presidential"  -> <<"Year", "PresidentialYear", "Yr", "YearInCycle">>
      [] profile_key = "quarter"       -> <<"Quarter", "Qtr", "Q">>
      [] profile_key = "month"         -> <<"Month", "MonthName", "MonthNum", "Mo">>
      [] profile_key = "week_of_year"  -> <<"WeekOfYear", "Week", "Wk", "WkOfYear">>
      [] profile_key = "week_of_month" -> <<"WeekOfMonth", "Week", "Wk", "WkOfMonth">>
      [] profile_key = "day_of_week"   -> <<"DayOfWeek", "Weekday", "Day", "DayName">>
      [] profile_key = "session"       -> <<"Session", "SessionName", "SessionNum">>
      [] OTHER -> <<>>

\* global_seed of a call made on the wall-clock date now
global_seed(now) == (now.y % 10) * 1000 + now.m * 100 + now.d

\* hash(str(unit)) in a process: a term, as the salt of the process is not known
str_hash(process, unit) == [process |-> process, str |-> ToString(unit)]

\* the k-th random.random() after random.seed(seed): a term
random_draw(seed, k) == [seed |-> seed, draw |-> k]

\* the value computed for the unit at index i (from 0) of unit_count units in
\* timeframe number tf, for metric column col: the term of its inputs
\* (pattern position, trend draws of timeframe_seed, noise draws of
\* timeframe_seed + hash(str(unit))); the trend component is trend_slope * i
composite_value(col, tf, i, unit_count, unit, now, process) ==
    LET timeframe_seed == global_seed(now) * tf
        noise_seed     == [base |-> timeframe_seed, hash |-> str_hash(process, unit)]
    IN  [metric    |-> col,
         timeframe |-> pattern_functions[tf],
         position  |-> <<i, unit_count>>,
         trend     |-> IF i = 0 THEN <<>>
                       ELSE <<random_draw(timeframe_seed, 1),
                              random_draw(timeframe_seed, 2)>>,
         noise     |-> IF col = "ProbRed"
                       THEN <<random_draw(noise_seed, 1), random_draw(noise_seed, 2)>>
                       ELSE <<random_draw(noise_seed, 1)>>]

\* Series.unique(): the values of a column in order of first appearance
unique(col) ==
    LET keep == {i \in DOMAIN col : \A j \in 1..(i - 1) : col[j] # col[i]}
        idx  == SortedSeq(keep)
    IN  [k \in DOMAIN idx |-> col[idx[k]]]

\* the sort key of a unit in the pivoted index: the number itself, and for the
\* labels of the session profile their alphabetical rank
UnitRank(unit_col, u) ==
    IF unit_col = "Label"
    THEN (IF u = "Asia" THEN 1 ELSE IF u = "London" THEN 2 ELSE 3)
    ELSE u

\* calculate_composite_averages called on wall-clock date now in a process;
\* metric_col is the list of metric columns (one name for a plain string);
\* the result is the pivoted table, one row per unit in index order
calculate_composite_averages(df, profile_key, metric_col, now, process) ==
    LET columns  == DOMAIN df[1]
        cands    == SelectSeq(potential_cols(profile_key), LAMBDA c : c \in columns)
        unit_col == IF cands # <<>> THEN Head(cands) ELSE "Label"
    IN  IF \E k \in DOMAIN metric_col : metric_col[k] \notin columns THEN <<>>
        ELSE IF get_composite_timeframes(profile_key) = <<>> THEN <<>>
        ELSE IF cands = <<>> /\ "Label" \notin columns THEN <<>>
        ELSE
        LET units      == unique(Column(df, unit_col))
            unit_count == Len(units)
            ranks      == SortedSeq({UnitRank(unit_col, units[i]) : i \in DOMAIN units})
            at(r)      == CHOOSE i \in DOMAIN units : UnitRank(unit_col, units[i]) = r
            cell(col, tf, i) ==
                composite_value(col, tf, i - 1, unit_count, units[i], now, process)
        IN  [k \in DOMAIN ranks |->
               LET i == at(ranks[k])
               IN  [Unit   |-> units[i],
                    Values |-> [m \in DOMAIN metric_col |->
                                  [tf \in DOMAIN pattern_functions |->
                                      cell(metric_col[m], tf, i)]]]]

----------------------------------------------------------------------------
(* gold.profile_utils.create_ordered_profile_df.  A Sort cell is <<n>>, or *)
(* <<>> for NaN (a label the order map does not hold).                     *)

month_order ==
    [Jan |-> 1, Feb |-> 2, Mar |-> 3, Apr |-> 4, May |-> 5, Jun |-> 6,
     Jul |-> 7, Aug |-> 8, Sep |-> 9, Oct |-> 10, Nov |-> 11, Dec |-> 12]

weekday_order ==
    [Mon |-> 1, Tue |-> 2, Wed |-> 3, Thu |-> 4, Fri |-> 5, Sat |-> 6, Sun |-> 7]

day_order == [Mon |-> 1, Tue |-> 2, Wed |-> 3, Thu |-> 4, Fri |-> 5]

session_order == [London |-> 1, NY |-> 2, Asian |-> 3]

\* Series.map(order) for one string cell
MapCell(order, label) ==
    IF label \in DOMAIN order THEN <<order[label]>> ELSE <<>>

\* the largest number a label of a profile row holds
MaxLabelNumber == 53

\* Series.str.extract(r'(\d+)').astype(int) for one cell: the first run of
\* digits of a label made of a prefix and a number
ExtractDigits(label) ==
    LET ns == {n \in 0..MaxLabelNumber :
                 \E prefix \in {"", "W", "Q", "Year ", "Y"} :
                     prefix \o ToString(n) = label}
    IN  IF ns = {} THEN <<>> ELSE <<CHOOSE n \in ns : TRUE>>

\* DataFrame.sort_values("Sort"): ascending, NaN last, rows of equal key and
\* NaN rows in table order
SortBySortColumn(t, Sort(_)) ==
    LET keys == SortedSeq({Sort(t[i])[1] : i \in {j \in DOMAIN t : Sort(t[j]) # <<>>}})
    IN  Flatten([k \in DOMAIN keys |-> SelectSeq(t, LAMBDA r : Sort(r) = <<keys[k]>>)])
        \o SelectSeq(t, LAMBDA r : Sort(r) = <<>>)

create_ordered_profile_df(profile_df, profile_key, session_view_mode) ==
    IF profile_df = <<>> THEN <<>>
    ELSE
    LET columns == DOMAIN profile_df[1]
        ByLabel(order) == SortBySortColumn(profile_df, LAMBDA r : MapCell(order, r.Label))
        ByNumber == SortBySortColumn(profile_df, LAMBDA r : ExtractDigits(r.Label))
        DaySession(r) ==
            LET d == MapCell(day_order, r.DayLabel)
                x == MapCell(session_order, r.SessionLabel)
            IN  IF d = <<>> \/ x = <<>> THEN <<>> ELSE <<d[1] * 10 + x[1]>>
    IN  CASE profile_key = "month" /\ "Label" \in columns -> ByLabel(month_order)
          [] profile_key = "day_of_week" /\ "Label" \in columns -> ByLabel(weekday_order)
          [] profile_key \in {"week_of_year", "week_of_month", "quarter",
                              "presidential", "decennial"} /\ "Label" \in columns ->
                ByNumber
          [] profile_key = "session" /\ session_view_mode = "daily"
               /\ {"DayLabel", "SessionLabel"} \subseteq columns ->
                SortBySortColumn(profile_df, DaySession)
          \* the Session column holds numbers, which the map of names does not hold
          [] profile_key = "session" /\ session_view_mode # "daily"
               /\ "Session" \in columns ->
                SortBySortColumn(profile_df, LAMBDA r : <<>>)
          [] OTHER -> profile_df

----------------------------------------------------------------------------
(* The effect of a call on the tables of its caller.  A heap maps the name *)
(* of an object to a table: its rows and the dtype of its Date column      *)
(* ("object" for date strings as read from a file, "absent" when the table *)
(* has no Date column).  A parameter is a reference to the caller's        *)
(* object; a column assignment writes to the object the local name is      *)
(* bound to.                                                               *)

\* DataFrame.copy() that hands back the object itself
copy_SameObject(h, ref, new) == [heap |-> h, ref |-> ref]

\* DataFrame.copy(): a new object with the content of ref
copy(h, ref, new) == [heap |-> (new :> h[ref]) @@ h, ref |-> new]

\* df[mask]: a new object holding the selected rows
getitem(h, ref, new, rows) ==
    [heap |-> (new :> [h[ref] EXCEPT !.rows = rows]) @@ h, ref |-> new]

\* df[col] = values: the column of the object is set row by row
setitem(h, ref, col, value(_, _)) ==
    LET t == h[ref].rows
    IN  [h EXCEPT ![ref].rows = [i \in DOMAIN t |-> (col :> value(t, i)) @@ t[i]]]

\* df["Date"] = pd.to_datetime(df["Date"]): the column becomes datetime64
to_datetime(h, ref) == [h EXCEPT ![ref].Date = "datetime64[ns]"]

\* the heap after week_of_year.build(df, start, end), df referring to ref
week_of_year_build_heap(h, ref, start, end) ==
    LET c  == copy(h, ref, "df.copy()")
        h1 == to_datetime(c.heap, c.ref)
        f  == getitem(h1, c.ref, "df[mask]", DateFilter(h1[c.ref].rows, start, end))
        h2 == setitem(f.heap, f.ref, "Bucket", LAMBDA t, i : isocalendar_week(t[i].Date))
        h3 == setitem(h2, f.ref, "Range", LAMBDA t, i : bar_range(t[i]))
        h4 == setitem(h3, f.ref, "Ret", LAMBDA t, i : pct(t[i]))
    IN  setitem(h4, f.ref, "Flag", LAMBDA t, i : flag(t[i]))

\* the heap after session.build(df, start, end, view)
session_build_heap(h, ref, start, end) ==
    LET c  == copy(h, ref, "df.copy()")
        h1 == to_datetime(c.heap, c.ref)
        f  == getitem(h1, c.ref, "df[mask]", DateFilter(h1[c.ref].rows, start, end))
    IN  IF f.heap[f.ref].rows = <<>> THEN f.heap
        ELSE
        LET h2 == setitem(f.heap, f.ref, "Weekday", LAMBDA t, i : Localized(t[i]).Weekday)
            h3 == setitem(h2, f.ref, "Hour", LAMBDA t, i : Localized(t[i]).Hour)
            h4 == setitem(h3, f.ref, "Session", LAMBDA t, i : Localized(t[i]).Session)
            h5 == setitem(h4, f.ref, "Range", LAMBDA t, i : bar_range(t[i]))
            h6 == setitem(h5, f.ref, "Ret", LAMBDA t, i : pct(t[i]))
            h7 == setitem(h6, f.ref, "Flag", LAMBDA t, i : flag(t[i]))
        IN  getitem(h7, f.ref, "df[weekdays]",
                    SelectSeq(h7[f.ref].rows, LAMBDA r : r.Weekday <= 5)).heap

\* the heap after calculate_seasonality(df, years_back, return_type, cutoff)
calculate_seasonality_heap(h, ref, years_back, return_type, cutoff) ==
    LET c  == copy(h, ref, "df.copy()")
        h1 == to_datetime(c.heap, c.ref)
        f1 == IF cutoff # <<>>
              THEN getitem(h1, c.ref, "df[cutoff]",
                           SelectSeq(h1[c.ref].rows,
                                     LAMBDA b : Stamp(b.Date) <= Stamp(cutoff[1])))
              ELSE [heap |-> h1, ref |-> c.ref]
        f2 == getitem(f1.heap, f1.ref, "df[years]",
                      SelectSeq(f1.heap[f1.ref].rows,
                                LAMBDA b : b.Date.y >= complete_year - years_back))
        h2 == setitem(f2.heap, f2.ref, "Return",
                      LAMBDA t, i : IF return_type = "open-close" THEN pct(t[i])
                                    ELSE PctChange(t, i))
        h3 == setitem(h2, f2.ref, "Year", LAMBDA t, i : t[i].Date.y)
        h4 == setitem(h3, f2.ref, "Month", LAMBDA t, i : t[i].Date.m)
        h5 == setitem(h4, f2.ref, "Day", LAMBDA t, i : t[i].Date.d)
    IN  setitem(h5, f2.ref, "DayOfYear", LAMBDA t, i : AdjustedDayOfYear(t[i].Date))

\* the heap after calculate_composite_average(df, ...): the columns are
\* assigned one after the other, each computed from the groups of df
RECURSIVE AssignTailMeans(_, _, _, _, _, _)
AssignTailMeans(h, ref, src, label_column, n_periods, cols) ==
    IF cols = <<>> THEN h
    ELSE LET col == Head(cols)
             h1  == IF h[src].rows # <<>> /\ col \in DOMAIN h[src].rows[1]
                    THEN LET g == h[src].rows
                         IN  setitem(h, ref, col,
                                     LAMBDA t, i : TailMean(g, label_column, col, n_periods, i))
                    ELSE h
         IN  AssignTailMeans(h1, ref, src, label_column, n_periods, Tail(cols))

calculate_composite_average_heap(h, ref, profile_key, composite_type, label_column, metric_columns) ==
    LET periods == get_composite_periods(profile_key)
    IN  IF h[ref].rows = <<>> THEN h
        ELSE IF composite_type \notin PeriodNames(periods) \/ composite_type = "Min Cycle"
        THEN h
        ELSE LET c == copy(h, ref, "df.copy()")
             IN  AssignTailMeans(c.heap, c.ref, ref, label_column,
                                 PeriodOf(periods, composite_type), metric_columns)

----------------------------------------------------------------------------
(* The callers: bounded arguments, one action per function called.  The    *)
(* core is invoked afresh on every user interaction and keeps nothing, so  *)
(* a behaviour is one interaction: a call, or calculate_seasonality        *)
(* followed by generate_cumulative_returns on its result.                  *)

MaxBars == 2

MaxHist == 3

MaxSeasonBars == 2

TS(y, m, d, h) == [y |-> y, m |-> m, d |-> d, h |-> h]

\* all tables of at most n rows drawn from the set rows
Tables(rows, n) == UNION {[1..k -> rows] : k \in 0..n}

\* OHLC values of a bar: a green bar, a red bar, a bar with Close = Open
Green == [Open |-> 100, High |-> 110, Low |-> 95, Close |-> 105]

Red == [Open |-> 100, High |-> 102, Low |-> 90, Close |-> 98]

Doji == [Open |-> 50, High |-> 50, Low |-> 50, Close |-> 50]

Bar(t, p) == [Date |-> t] @@ p

\* UTC timestamps of hourly and daily bars
WedAsia == TS(2024, 1, 3, 21)   \* Wed 16:00 Eastern, ISO week 1

WedNY == TS(2024, 1, 3, 14)     \* Wed 09:00 Eastern, ISO week 1

Saturday == TS(2024, 1, 6, 12)  \* Sat 07:00 Eastern, ISO week 1

Week53 == TS(2020, 12, 31, 0)   \* Thu in UTC, Wed 19:00 Eastern, ISO week 53

SunNight == TS(2024, 7, 1, 3)   \* Mon in UTC, Sun 23:00 Eastern (daylight time)

\* the bars the tables passed to the profile builders are made of
ProfileBars ==
    { Bar(WedAsia, Green), Bar(WedAsia, Red), Bar(WedAsia, Doji),
      Bar(WedNY, Green), Bar(WedNY, Red), Bar(Saturday, Green),
      Bar(Week53, Green), Bar(Week53, Red), Bar(SunNight, Green) }

\* (start, end) pairs, each pd.Timestamp(date): every bar; the first week of
\* 2024; a range ending on the day of two intraday bars, in which no bar lies
ProfileRanges ==
    { <<TS(2020, 1, 1, 0), TS(2024, 12, 31, 0)>>,
      <<TS(2024, 1, 1, 0), TS(2024, 1, 7, 0)>>,
      <<TS(2024, 1, 1, 0), TS(2024, 1, 3, 0)>> }

Views == {"daily", "combined"}

Hours == 0..23

\* history rows: (AvgReturn, AvgRange, ProbGreen, ProbRed) per unit
HistValues ==
    { <<2, 10, 100, 0>>, <<-1, 4, 50, 50>>, <<0, 0, 0, 0>> }

HistUnits == {1, 2}

HistRows ==
    { [Bucket |-> u, AvgReturn |-> RInt(v[1]), AvgRange |-> RInt(v[2]),
       ProbGreen |-> RInt(v[3]), ProbRed |-> RInt(v[4])] :
      u \in HistUnits, v \in HistValues }

ProfileKeys == {"decennial", "month", "week_of_month", "bogus"}

CompositeTypes ==
    { "Min Cycle", "Short-term Avg", "1 Year", "3 Years", "10 Years",
      "1 Month", "3 Months" }

MetricLists ==
    { <<"AvgReturn", "AvgRange", "ProbGreen", "ProbRed">>,
      <<"AvgReturn", "Volume">> }

\* dates of daily bars around the leap day, the year ends and the cutoff
SeasonDates ==
    { TS(2020, 6, 1, 0), TS(2023, 12, 31, 0), TS(2024, 2, 28, 0),
      TS(2024, 2, 29, 0), TS(2024, 3, 1, 0), TS(2024, 12, 31, 0),
      TS(2025, 1, 2, 0), TS(2025, 3, 3, 0) }

SeasonPrices ==
    { [Open |-> 100, High |-> 112, Low |-> 99, Close |-> 110],
      [Open |-> 100, High |-> 101, Low |-> 94, Close |-> 95] }

SeasonBars == {Bar(t, p) : t \in SeasonDates, p \in SeasonPrices}

\* every calendar day of a non-leap and a leap year
CalendarDates ==
    {TS(y, m, d, 0) : y \in {2023, 2024}, m \in 1..12, d \in 1..31} \cap
    {t \in [y : {2023, 2024}, m : 1..12, d : 1..31, h : {0}] : t.d <= DaysInMonth(t.y, t.m)}

\* three-bar tables: Dec 31 of two years around a day of February
SeasonSamples ==
    { << Bar(TS(2023, 12, 31, 0), p1), Bar(TS(2024, 2, 28, 0), p2),
         Bar(TS(2024, 12, 31, 0), p3) >> :
      p1 \in SeasonPrices, p2 \in SeasonPrices, p3 \in SeasonPrices }

\* the tables passed to calculate_seasonality: short tables of sample bars,
\* the three-bar samples, and every one-bar table of the calendar
SeasonTables ==
    Tables(SeasonBars, MaxSeasonBars) \cup SeasonSamples \cup
    { << [Date |-> t, Open |-> 100, High |-> 112, Low |-> 99, Close |-> 110] >> :
      t \in CalendarDates }

YearsBack == {1, 5}

ReturnTypes == {"open-close", "close-close"}

Cutoffs == { <<>>, <<cutoff_date>>, <<TS(2023, 12, 31, 0)>> }

YearsLists == { <<5, 10, 15>>, <<1>>, <<>> }

\* the calendar date of a timestamp
DateOf(t) == [y |-> t.y, m |-> t.m, d |-> t.d]

\* (start_date, end_date) pairs chosen in the date pickers
LoadRanges == {<<DateOf(r[1]), DateOf(r[2])>> : r \in ProfileRanges}

\* (profile_key, view_mode, filter_type) triples the controls can produce
LoadSelections ==
    {<<"week_of_year", "daily", "All">>} \cup
    {<<"session", v, f>> : v \in Views, f \in {"All", "Green Days", "Red Days"}}

\* the columns of a bar table
BarColumns == {"Date", "Open", "High", "Low", "Close"}

\* column sets of tables that lack one required price column
LackingColumns == {BarColumns \ {c} : c \in Range(MetricReads)}

\* the rows of table t restricted to the columns cols
Project(t, cols) == [i \in DOMAIN t |-> [c \in cols |-> t[i][c]]]

\* Eastern wall-clock times: New Year's Day, a day of June and of December in
\* each year of a presidential cycle and of a decade, every hour of the day
PositionYears == 2019..2030

PositionTimes ==
    { TS(y, md[1], md[2], h) :
        y \in PositionYears, md \in {<<1, 1>>, <<6, 15>>, <<12, 31>>}, h \in Hours }

\* the profile keys passed to get_current_position
PositionKeys == Range(BUILDERS) \cup {"bogus"}

\* rows of a session profile table, as session.build returns them
CyclicalRows ==
    { [Bucket |-> ALL_SESSIONS_BUCKET, Session |-> x, Label |-> session_label(x),
       SessionLabel |-> session_label(x),
       ProbGreen |-> RInt(50), ProbRed |-> RInt(50),
       AvgReturn |-> RInt(1), AvgRange |-> RInt(5)] : x \in Range(SESSION_BUCKETS) }

MaxUnits == 2

\* non-empty profile tables (the tab stops on an empty profile)
CyclicalTables == Tables(CyclicalRows, MaxUnits) \ {<<>>}

\* the profile keys of the tab, one whose unit column the table lacks (the
\* Label column is used), and an unknown one
CyclicalKeys == {"session", "month", "bogus"}

\* metric_col as render_composite_averages maps it, and a missing column
CyclicalMetrics ==
    { <<"AvgReturn">>, <<"AvgRange">>, <<"ProbGreen", "ProbRed">>, <<"Volume">> }

\* wall-clock dates of a call: two days of a month, and a day ten years later
\* to the day
WallClockDates ==
    { [y |-> 2024, m |-> 1, d |-> 3], [y |-> 2024, m |-> 1, d |-> 4],
      [y |-> 2034, m |-> 1, d |-> 3] }

\* processes, each with its own hash salt
Processes == {1, 2}

\* rows of profile tables: the daily session view of two weekdays, the
\* combined session view, and weeks of the year
DailyRows ==
    { [Bucket |-> d, Session |-> x, Label |-> dow_session_label(d, x),
       DayLabel |-> dow(d), SessionLabel |-> session_label(x),
       ProbGreen |-> RInt(50), ProbRed |-> RInt(50),
       AvgReturn |-> RInt(1), AvgRange |-> RInt(5)] :
      d \in {1, 2}, x \in Range(SESSION_BUCKETS) }

WeekRows ==
    { [Bucket |-> k, Label |-> lab(k),
       ProbGreen |-> RInt(50), ProbRed |-> RInt(50),
       AvgReturn |-> RInt(1), AvgRange |-> RInt(5)] : k \in {1, 2, 10, 52} }

MaxOrdered == 2

OrderedInputs ==
    (Tables(DailyRows, MaxOrdered) \X {"session"} \X Views)
    \cup (Tables(CyclicalRows, MaxOrdered) \X {"session"} \X Views)
    \cup (Tables(WeekRows, MaxOrdered) \X {"week_of_year", "bogus"} \X {"daily"})

\* the tables a caller holds across its calls: the bars it loaded (dates
\* still strings, or already parsed) and a history of profile rows
CallerBars ==
    { <<>>, <<Bar(WedAsia, Green)>>, <<Bar(WedNY, Red), Bar(WedAsia, Green)>>,
      <<Bar(TS(2024, 2, 28, 0), Green), Bar(TS(2024, 3, 1, 0), Red)>> }

CallerHistories ==
    { <<>>,
      <<[Bucket |-> 1, AvgReturn |-> RInt(2), AvgRange |-> RInt(10),
         ProbGreen |-> RInt(100), ProbRed |-> RInt(0)],
        [Bucket |-> 1, AvgReturn |-> RInt(-1), AvgRange |-> RInt(4),
         ProbGreen |-> RInt(50), ProbRed |-> RInt(50)]>>,
      <<[Bucket |-> 1, AvgReturn |-> RInt(2), AvgRange |-> RInt(10),
         ProbGreen |-> RInt(100), ProbRed |-> RInt(0)],
        [Bucket |-> 2, AvgReturn |-> RInt(-1), AvgRange |-> RInt(4),
         ProbGreen |-> RInt(50), ProbRed |-> RInt(50)]>> }

CallerHeaps ==
    { [bars |-> [rows |-> b, Date |-> d], history |-> [rows |-> t, Date |-> "absent"]] :
      b \in CallerBars, d \in {"object", "datetime64[ns]"}, t \in CallerHistories }

\* the calls a caller makes in a row
MaxCalls == 2

CallerOps ==
    { "caller:week_of_year.build", "caller:session.build",
      "caller:calculate_seasonality", "caller:calculate_composite_average" }

\* the caller's tables before its next call, the tables it started with, and
\* the number of the call
HeapsNow == IF op = "none" THEN CallerHeaps ELSE {ret.heap}

Original(h) == IF op = "none" THEN h ELSE args.original

CallNo == IF op = "none" THEN 1 ELSE args.call + 1

CanCall == op = "none" \/ (op \in CallerOps /\ args.call < MaxCalls)

\* the caller's objects of a heap
Kept(h) == [bars |-> h["bars"], history |-> h["history"]]

Init ==
    /\ op = "none"
    /\ args = <<>>
    /\ ret = <<>>

BuildWeekOfYear ==
    /\ op = "none"
    /\ \E t \in Tables(ProfileBars, MaxBars), r \in ProfileRanges :
        /\ op' = "week_of_year.build"
        /\ args' = [df |-> t, start |-> r[1], end |-> r[2]]
        /\ ret' = week_of_year_build(t, r[1], r[2])

BuildSession ==
    /\ op = "none"
    /\ \E t \in Tables(ProfileBars, MaxBars), r \in ProfileRanges, v \in Views :
        /\ op' = "session.build"
        /\ args' = [df |-> t, start |-> r[1], end |-> r[2], view |-> v]
        /\ ret' = session_build(t, r[1], r[2], v)

LoadProfileData ==
    /\ op = "none"
    /\ \E t \in Tables(ProfileBars, MaxBars), r \in LoadRanges, c \in LoadSelections :
        /\ op' = "load_profile_data"
        /\ args' = [raw |-> t, profile_key |-> c[1], start_date |-> r[1],
                    end_date |-> r[2], view_mode |-> c[2], filter_type |-> c[3]]
        /\ ret' = load_profile_data(t, c[1], r[1], r[2], c[2], c[3])

\* a build called on a table that lacks a required price column
BuildWeekOfYearLacking ==
    /\ op = "none"
    /\ \E t \in Tables(ProfileBars, MaxBars), r \in ProfileRanges,
          cols \in LackingColumns :
        /\ op' = "week_of_year.build"
        /\ args' = [df |-> Project(t, cols), columns |-> cols,
                    start |-> r[1], end |-> r[2]]
        /\ ret' = week_of_year_build_on(cols, Project(t, cols), r[1], r[2])

BuildSessionLacking ==
    /\ op = "none"
    /\ \E t \in Tables(ProfileBars, MaxBars), r \in ProfileRanges, v \in Views,
          cols \in LackingColumns :
        /\ op' = "session.build"
        /\ args' = [df |-> Project(t, cols), columns |-> cols,
                    start |-> r[1], end |-> r[2], view |-> v]
        /\ ret' = session_build_on(cols, Project(t, cols), r[1], r[2], v)

DetermineSession ==
    /\ op = "none"
    /\ \E h \in Hours :
        /\ op' = "determine_session"
        /\ args' = [hour |-> h]
        /\ ret' = determine_session(h)

ComputePositions ==
    /\ op = "none"
    /\ \E t \in PositionTimes :
        /\ op' = "compute_positions"
        /\ args' = [now |-> t]
        /\ ret' = compute_positions(t)

GetCurrentPosition ==
    /\ op = "none"
    /\ \E k \in PositionKeys, t \in PositionTimes :
        /\ op' = "get_current_position"
        /\ args' = [prof_key |-> k, current_time |-> t]
        /\ ret' = get_current_position(k, t)

\* the position table app.py builds on every run
AppPositions ==
    /\ op = "none"
    /\ \E t \in PositionTimes :
        /\ op' = "app.positions_data"
        /\ args' = [current_time |-> t]
        /\ ret' = app_positions(t)

\* the tab computes the composite table on every run: a first call, then
\* calls with the same arguments on later runs (another date, another
\* process)
CalculateCompositeAverages ==
    /\ op \in {"none", "calculate_composite_averages"}
    /\ \E t \in CyclicalTables, k \in CyclicalKeys, m \in CyclicalMetrics,
          now \in WallClockDates, process \in Processes :
        LET a == [df |-> t, profile_key |-> k, metric_col |-> m]
        IN  /\ op = "calculate_composite_averages" => a = args
            /\ op' = "calculate_composite_averages"
            /\ args' = a
            /\ ret' = calculate_composite_averages(t, k, m, now, process)

\* a caller passes its own tables to the functions, call after call
CallerBuildsWeekOfYear ==
    /\ CanCall
    /\ \E h \in HeapsNow, r \in ProfileRanges :
        /\ op' = "caller:week_of_year.build"
        /\ args' = [original |-> Original(h), call |-> CallNo,
                    start |-> r[1], end |-> r[2]]
        /\ ret' = [heap |-> Kept(week_of_year_build_heap(h, "bars", r[1], r[2])),
                   out  |-> week_of_year_build(h["bars"].rows, r[1], r[2])]

CallerBuildsSession ==
    /\ CanCall
    /\ \E h \in HeapsNow, r \in ProfileRanges, v \in Views :
        /\ op' = "caller:session.build"
        /\ args' = [original |-> Original(h), call |-> CallNo,
                    start |-> r[1], end |-> r[2], view |-> v]
        /\ ret' = [heap |-> Kept(session_build_heap(h, "bars", r[1], r[2])),
                   out  |-> session_build(h["bars"].rows, r[1], r[2], v)]

CallerCalculatesSeasonality ==
    /\ CanCall
    /\ \E h \in HeapsNow, rt \in ReturnTypes, c \in Cutoffs :
        /\ op' = "caller:calculate_seasonality"
        /\ args' = [original |-> Original(h), call |-> CallNo, years_back |-> 1,
                    return_type |-> rt, cutoff_date |-> c]
        /\ ret' = [heap |-> Kept(calculate_seasonality_heap(h, "bars", 1, rt, c)),
                   out  |-> calculate_seasonality(h["bars"].rows, 1, rt, c)]

CallerAveragesComposite ==
    /\ CanCall
    /\ \E h \in HeapsNow, c \in {"Min Cycle", "3 Years"}, m \in MetricLists :
        /\ op' = "caller:calculate_composite_average"
        /\ args' = [original |-> Original(h), call |-> CallNo,
                    profile_key |-> "month", composite_type |-> c,
                    label_column |-> "Bucket", metric_columns |-> m]
        /\ ret' = [heap |-> Kept(calculate_composite_average_heap(
                                    h, "history", "month", c, "Bucket", m)),
                   out  |-> calculate_composite_average(
                                h["history"].rows, "month", c, "Bucket", m)]

CreateOrderedProfileDf ==
    /\ op = "none"
    /\ \E a \in OrderedInputs :
        /\ op' = "create_ordered_profile_df"
        /\ args' = [profile_df |-> a[1], profile_key |-> a[2],
                    session_view_mode |-> a[3]]
        /\ ret' = create_ordered_profile_df(a[1], a[2], a[3])

CompositeAverage ==
    /\ op = "none"
    /\ \E t \in Tables(HistRows, MaxHist), k \in ProfileKeys, c \in CompositeTypes,
          m \in MetricLists :
        /\ op' = "calculate_composite_average"
        /\ args' = [df |-> t, profile_key |-> k, composite_type |-> c,
                    label_column |-> "Bucket", metric_columns |-> m]
        /\ ret' = calculate_composite_average(t, k, c, "Bucket", m)

CalculateSeasonality ==
    /\ op = "none"
    /\ \E t \in SeasonTables, yb \in YearsBack, rt \in ReturnTypes, c \in Cutoffs :
        /\ op' = "calculate_seasonality"
        /\ args' = [df |-> t, years_back |-> yb, return_type |-> rt,
                    cutoff_date |-> c]
        /\ ret' = calculate_seasonality(t, yb, rt, c)

\* the caller hands the annotated table on to generate_cumulative_returns
GenerateCumulativeReturns ==
    /\ op = "calculate_seasonality"
    /\ \E yl \in YearsLists :
        /\ op' = "generate_cumulative_returns"
        /\ args' = [df |-> ret, years_list |-> yl]
        /\ ret' \in generate_cumulative_returns(ret, yl)

NextProfile == BuildWeekOfYear \/ BuildSession \/ DetermineSession

NextLoader == LoadProfileData

NextMissingColumn == BuildWeekOfYearLacking \/ BuildSessionLacking

NextPosition == ComputePositions \/ GetCurrentPosition \/ AppPositions

NextCyclical == CalculateCompositeAverages

NextOrdered == CreateOrderedProfileDf

NextCaller ==
    \/ CallerBuildsWeekOfYear
    \/ CallerBuildsSession
    \/ CallerCalculatesSeasonality
    \/ CallerAveragesComposite

NextComposite == CompositeAverage

NextSeason == CalculateSeasonality \/ GenerateCumulativeReturns

Next ==
    \/ NextProfile
    \/ NextLoader
    \/ NextMissingColumn
    \/ NextPosition
    \/ NextCyclical
    \/ NextCaller
    \/ NextOrdered
    \/ NextComposite
    \/ NextSeason

SpecProfile == Init /\ [][NextProfile]_vars

SpecLoader == Init /\ [][NextLoader]_vars

SpecMissingColumn == Init /\ [][NextMissingColumn]_vars

SpecPosition == Init /\ [][NextPosition]_vars

SpecCyclical == Init /\ [][NextCyclical]_vars

SpecCaller == Init /\ [][NextCaller]_vars

SpecOrdered == Init /\ [][NextOrdered]_vars

SpecComposite == Init /\ [][NextComposite]_vars

SpecSeason == Init /\ [][NextSeason]_vars

Spec == Init /\ [][Next]_vars

----------------------------------------------------------------------------
(* Properties of the profile builders and the session classifier, checked *)
(* under SpecProfile                                                       *)

\* the in-range bars of the last build call
InRange == DateFilter(args.df, args.start, args.end)

\* the in-range bars week_of_year.build assigns to bucket k
WeekBars(k) == SelectSeq(InRange, LAMBDA b : isocalendar_week(b.Date) = k)

\* the in-range bars session.build assigns to the bucket of row r: weekday
\* bars of the row's session, and in daily view of the row's weekday
SessionBars(r) ==
    SelectSeq(InRange, LAMBDA b :
        LET local == tz_convert(b.Date)
        IN  /\ weekday(local) + 1 <= 5
            /\ determine_session(local.h) = r.Session
            /\ args.view = "daily" => weekday(local) + 1 = r.Bucket)

\* C1: week_of_year.build returns, for every bar table and date range,
\* exactly 52 rows whose Bucket values are 1..52 in ascending order (each
\* value exactly once).
C1_WeekOfYearDomainComplete ==
    op = "week_of_year.build" =>
        /\ Len(ret) = 52
        /\ \A i \in 1..52 : ret[i].Bucket = i

\* a call on a non-empty table in whose date range no bar lies
C1_Witness_NoBarSurvives ==
    /\ op = "week_of_year.build"
    /\ args.df # <<>>
    /\ InRange = <<>>
    /\ Len(ret) = 52

\* the Domain of the session profile in the view of the last call, as the
\* (Bucket, Session) pairs in natural order
SessionDomain ==
    IF args.view = "daily"
    THEN [i \in 1..15 |-> <<((i - 1) \div 3) + 1, ((i - 1) % 3) + 1>>]
    ELSE [i \in 1..3 |-> <<ALL_SESSIONS_BUCKET, i>>]

\* C2: session.build returns one row per Domain entry for every input and
\* date range: 15 rows (weekday 1..5 x session 1..3) in daily view, 3 rows in
\* combined view, and a bucket with no bar is present with all four metrics 0.
C2_SessionDomainComplete ==
    op = "session.build" =>
        /\ Len(ret) = Len(SessionDomain)
        /\ \A i \in DOMAIN SessionDomain :
              /\ <<ret[i].Bucket, ret[i].Session>> = SessionDomain[i]
              /\ SessionBars(ret[i]) = <<>> =>
                    \A c \in Range(METRICS) : ret[i][c] = RInt(0)

\* C3: in every row a profile build returns, ProbGreen + ProbRed = 100 when
\* at least one in-range bar was assigned to the row's bucket, and
\* ProbGreen = ProbRed = 0 when none was.
C3_ProbabilitiesSumTo100 ==
    op \in {"week_of_year.build", "session.build"} =>
        LET weeks == {isocalendar_week(b.Date) : b \in Range(InRange)}
        IN  \A i \in DOMAIN ret :
              LET some == IF op = "week_of_year.build" THEN ret[i].Bucket \in weeks
                          ELSE SessionBars(ret[i]) # <<>>
              IN  IF some
                  THEN RAdd(ret[i].ProbGreen, ret[i].ProbRed) = RInt(100)
                  ELSE ret[i].ProbGreen = RInt(0) /\ ret[i].ProbRed = RInt(0)

\* a week_of_year table with a bucket of two green bars and an empty bucket
C3_Witness_TwoGreenAndEmpty ==
    /\ op = "week_of_year.build"
    /\ \E i \in DOMAIN ret :
          /\ Len(WeekBars(ret[i].Bucket)) = 2
          /\ ret[i].ProbGreen = RInt(100)
          /\ ret[i].ProbRed = RInt(0)
    /\ \E i \in DOMAIN ret :
          /\ WeekBars(ret[i].Bucket) = <<>>
          /\ ret[i].ProbGreen = RInt(0)
          /\ ret[i].ProbRed = RInt(0)

\* the bars of the bucket of row r of the profile returned
RowBars(r) == IF op = "week_of_year.build" THEN WeekBars(r.Bucket) ELSE SessionBars(r)

\* the number of bars of g that closed above their open
GreenCount(g) == Cardinality({j \in DOMAIN g : g[j].Close > g[j].Open})

\* C24: flag is 1 exactly for the bars with Close > Open and 0 for all
\* others: in every profile row with bars, ProbGreen is the share of bars
\* with Close > Open and ProbRed the share of all other bars, so a bar with
\* Close = Open adds nothing to ProbGreen and counts toward ProbRed.
C24_DojiCountsAsRed ==
    op \in {"week_of_year.build", "session.build"} =>
        \A i \in DOMAIN ret :
            LET g == RowBars(ret[i])
            IN  g # <<>> =>
                  /\ ret[i].ProbGreen = Rat(100 * GreenCount(g), Len(g))
                  /\ ret[i].ProbRed = Rat(100 * (Len(g) - GreenCount(g)), Len(g))

\* a bucket holding a green bar and a bar with Close = Open: 50 / 50
C24_Witness_GreenAndDoji ==
    /\ op = "session.build"
    /\ \E i \in DOMAIN ret :
          LET g == RowBars(ret[i])
          IN  /\ Len(g) = 2
              /\ \E j \in DOMAIN g : g[j].Close = g[j].Open
              /\ \E j \in DOMAIN g : g[j].Close > g[j].Open
              /\ ret[i].ProbGreen = RInt(50)
              /\ ret[i].ProbRed = RInt(50)

\* the bars of the table that are not of ISO week 53
WithoutWeek53(t) == SelectSeq(t, LAMBDA b : isocalendar_week(b.Date) # 53)

\* C26: bars dated in ISO week 53 are silently discarded by
\* week_of_year.build: no row of the result has bucket 53, and the 52 rows
\* returned are the rows returned when those bars are absent from the table.
C26_Week53Discarded ==
    op = "week_of_year.build" =>
        /\ Len(ret) = 52
        /\ \A i \in DOMAIN ret : ret[i].Bucket = i
        /\ ret = week_of_year_build(WithoutWeek53(args.df), args.start, args.end)
        /\ \A k \in 1..52 :
              LET g == SelectSeq(WithoutWeek53(InRange),
                                 LAMBDA b : isocalendar_week(b.Date) = k)
              IN  \A c \in Range(METRICS) :
                    ret[k][c] = IF g = <<>> THEN RInt(0) ELSE MetricRow(g)[c]

\* a table with an in-range bar of week 53 and an in-range bar of week 1
C26_Witness_Week53AndWeek1 ==
    /\ op = "week_of_year.build"
    /\ \E b \in Range(InRange) : isocalendar_week(b.Date) = 53
    /\ \E b \in Range(InRange) : isocalendar_week(b.Date) = 1
    /\ ret[1].AvgReturn # RInt(0)
    /\ Len(ret) = 52

\* the windows of SESSION_TIMES that hold the time h:00
WindowsAt(h) == {s \in DOMAIN SESSION_TIMES : InWindow(s, h * 60)}

\* C4: determine_session(hour) is never None for an hour 0..23: hours 16..23
\* give 1 (Asia), 0..7 give 2 (London), 8..15 give 3 (NY), and exactly one
\* window of SESSION_TIMES holds each hour (no gap, no overlap).
C4_SessionsPartitionTheDay ==
    op = "determine_session" =>
        /\ ret # 0
        /\ ret = (IF args.hour >= 16 THEN 1 ELSE IF args.hour <= 7 THEN 2 ELSE 3)
        /\ Cardinality(WindowsAt(args.hour)) = 1

\* the call at a window boundary: 08:00 is NY, not London
C4_Witness_Hour8 ==
    /\ op = "determine_session"
    /\ args.hour = 8
    /\ ret = 3

\* C15: in the table week_of_year.build returns, every bucket that received
\* at least one in-range bar has AvgReturn equal to the arithmetic mean of
\* (Close - Open) / Open x 100 over exactly the bars assigned to it and
\* AvgRange equal to the mean of High - Low over those bars, and every bucket
\* that received no bar has AvgReturn = AvgRange = ProbGreen = ProbRed = 0.
C15_WeekOfYearAverages ==
    op = "week_of_year.build" =>
        \A i \in DOMAIN ret :
            LET g == WeekBars(ret[i].Bucket)
                n == Len(g)
            IN  IF n > 0
                THEN /\ RMul(ret[i].AvgReturn, RInt(n)) =
                          SeriesSum([j \in 1..n |->
                              Rat((g[j].Close - g[j].Open) * 100, g[j].Open)])
                     /\ RMul(ret[i].AvgRange, RInt(n)) =
                          SeriesSum([j \in 1..n |-> RInt(g[j].High - g[j].Low)])
                ELSE \A c \in Range(METRICS) : ret[i][c] = RInt(0)

\* week 1 holding a +5% bar of range 15 and a -2% bar of range 12: AvgReturn
\* 3/2 and AvgRange 27/2, and week 2 without a bar all zero
C15_Witness_MeanOfTwoAndZeroRow ==
    /\ op = "week_of_year.build"
    /\ Len(WeekBars(1)) = 2
    /\ ret[1].AvgReturn = Rat(3, 2)
    /\ ret[1].AvgRange = Rat(27, 2)
    /\ WeekBars(2) = <<>>
    /\ \A c \in Range(METRICS) : ret[2][c] = RInt(0)

\* hours from the epoch of the model to the Eastern wall clock of UTC time t:
\* UTC less 5 hours, less 4 in daylight time
EasternHours(t) == Stamp(t) - (IF IsDST(t) THEN 4 ELSE 5)

\* the Eastern-local weekday 1..7 (Monday = 1) and hour 0..23 of UTC time t
EasternWeekday(t) == (((EasternHours(t) \div 24) + 6) % 7) + 1

EasternHour(t) == EasternHours(t) % 24

\* the (Bucket, Session) key of the row a weekday bar belongs to in view v
BucketOf(b, v) ==
    << IF v = "daily" THEN EasternWeekday(b.Date) ELSE ALL_SESSIONS_BUCKET,
       determine_session(EasternHour(b.Date)) >>

\* the in-range bars of Eastern weekdays 1..5 whose key in view v is key
BarsOfBucket(key, v) ==
    SelectSeq(InRange, LAMBDA b :
        EasternWeekday(b.Date) \in 1..5 /\ BucketOf(b, v) = key)

\* C12: session.build takes each bar's weekday and hour from its timestamp
\* converted from UTC to US Eastern time: the rows returned are those of the
\* buckets (w, determine_session(h)) of the in-range bars with Eastern
\* weekday w in 1..5 and Eastern hour h (the sentinel weekday in combined
\* view), each row holds the metrics of exactly the bars of its bucket, a
\* Saturday or Sunday (Eastern) bar is in no row, and an in-range bar at
\* 2024-01-03 21:00 UTC is counted in the Wednesday/Asia row.
C12_EasternTimeBuckets ==
    op = "session.build" =>
        LET v == args.view
        IN  /\ \A i \in DOMAIN ret :
                 LET g == BarsOfBucket(<<ret[i].Bucket, ret[i].Session>>, v)
                     m == MetricRow(g)
                 IN  /\ g # <<>>
                     /\ \A c \in Range(METRICS) : ret[i][c] = m[c]
            /\ \A k \in DOMAIN InRange :
                 LET key == BucketOf(InRange[k], v)
                     n   == Cardinality({i \in DOMAIN ret :
                                          <<ret[i].Bucket, ret[i].Session>> = key})
                 IN  EasternWeekday(InRange[k].Date) \in 1..5 => n = 1
            /\ (v = "daily" /\ \E k \in DOMAIN InRange : InRange[k].Date = WedAsia) =>
                 \E i \in DOMAIN ret : ret[i].Bucket = 3 /\ ret[i].Session = 1

\* daily view of a bar at Thursday 00:00 UTC (Wednesday 19:00 Eastern) and a
\* bar at Monday 03:00 UTC (Sunday 23:00 Eastern): one row, Wednesday/Asia
C12_Witness_UtcThursdayIsWedAsia ==
    /\ op = "session.build"
    /\ args.view = "daily"
    /\ {InRange[k].Date : k \in DOMAIN InRange} = {Week53, SunNight}
    /\ Len(ret) = 1
    /\ ret[1].Bucket = 3
    /\ ret[1].Session = 1
    /\ ret[1].Label = "Wed-Asia"

\* C13: MissingColumn is fatal: for every date range (one in which no bar
\* survives the filter included), week_of_year.build and session.build called
\* on a bar table that lacks Open, High, Low or Close raise an error and
\* return no result table.  Checked under SpecMissingColumn.
C13_MissingColumnFatal ==
    (/\ op \in {"week_of_year.build", "session.build"}
     /\ \E c \in Range(MetricReads) : c \notin args.columns)
        => IsRaised(ret)

----------------------------------------------------------------------------
(* Properties of load_profile_data, checked under SpecLoader *)

\* the last hour of the calendar day of a date
EndOfDay(date) == [y |-> date.y, m |-> date.m, d |-> date.d, h |-> 23]

\* the profile of table t over the timestamps s..e, built as the last call asks
ProfileOver(t, s, e) ==
    IF args.profile_key = "session" THEN session_build(t, s, e, args.view_mode)
    ELSE week_of_year_build(t, s, e)

\* C16: profile builds filter bars to [start, end] inclusive: the profile
\* load_profile_data(profile_key, start_date, end_date) returns is the
\* profile of exactly the bars whose calendar date lies in
\* [start_date, end_date], every intraday bar dated on end_date itself
\* included; no bar dated before start_date or after end_date contributes.
C16_InclusiveDateFilter ==
    (op = "load_profile_data" /\ args.filter_type = "All") =>
        ret = ProfileOver(args.raw, Timestamp(args.start_date),
                          EndOfDay(args.end_date))

\* the net move of the calendar day of bar b in table t: the sum of
\* Close - Open over the bars of t dated on that day
RECURSIVE NetOfDay(_, _)
NetOfDay(t, b) ==
    IF t = <<>> THEN 0
    ELSE (IF DateOf(Head(t).Date) = DateOf(b.Date)
          THEN Head(t).Close - Head(t).Open ELSE 0) + NetOfDay(Tail(t), b)

\* the bars of t that belong to net-positive ("Green Days") or net-negative
\* ("Red Days") days
BarsOfDays(t, filter_type) ==
    SelectSeq(t, LAMBDA b :
        IF filter_type = "Green Days" THEN NetOfDay(t, b) > 0
        ELSE NetOfDay(t, b) < 0)

\* C17: in the session profile's combined view with filter 'Green Days'
\* (resp. 'Red Days'), load_profile_data aggregates exactly the bars that
\* belong to days whose net return is positive (resp. negative), whatever
\* the individual bar's own Close-versus-Open direction.
C17_GreenRedDaysFilter ==
    (/\ op = "load_profile_data"
     /\ args.profile_key = "session"
     /\ args.view_mode = "combined"
     /\ args.filter_type \in {"Green Days", "Red Days"}) =>
        ret = session_build(BarsOfDays(args.raw, args.filter_type),
                            Timestamp(args.start_date), Timestamp(args.end_date),
                            "combined")

\* the raw bars moving in the direction the filter of the last call names
FilterBars ==
    SelectSeq(args.raw, LAMBDA b :
        IF args.filter_type = "Green Days" THEN b.Close > b.Open
        ELSE b.Close < b.Open)

----------------------------------------------------------------------------
(* Properties of the current market positions, checked under SpecPosition *)

\* the row of profile name in the position table t
RowOf(t, name) == t[CHOOSE i \in DOMAIN t : t[i].Profile = name]

\* C14: the decennial cycle position of a year is year mod 10, a value in
\* 0..9 (2024 gives 4, 2030 gives 0), in every place the program computes
\* it: get_current_position('decennial', t) and the 'Decennial' row of
\* compute_positions(t) both report t.year mod 10.
C14_DecennialIsYearMod10 ==
    /\ (op = "get_current_position" /\ args.prof_key = "decennial") =>
          /\ ret.current_position = args.current_time.y % 10
          /\ ret.current_position \in 0..9
    /\ op = "compute_positions" =>
          RowOf(ret, "Decennial").Position
              = ToString(args.now.y % 10) \o " of 10"

\* the presidential-cycle position of year y: 4 in an election year (a year
\* divisible by 4), 1 in the year after it, then 2 and 3
PresidentialYear(y) == IF y % 4 = 0 THEN 4 ELSE y % 4

\* C19: every presidential-cycle position the program computes is
\* ((year - anchor) mod 4) + 1 with Year 1 the post-election year and Year 4
\* the election year: 4 for a year divisible by 4 (2020, 2024) and 1 for the
\* year after it, in compute_positions, in get_current_position and in the
\* current-position table of app.py.
C19_PresidentialCycle ==
    /\ op = "compute_positions" =>
          RowOf(ret, "Presidential").Position
              = ToString(PresidentialYear(args.now.y)) \o " of 4"
    /\ (op = "get_current_position" /\ args.prof_key = "presidential") =>
          ret.current_position = PresidentialYear(args.current_time.y)
    /\ op = "app.positions_data" =>
          RowOf(ret, "Presidential").Position
              = ToString(PresidentialYear(args.current_time.y)) \o " of 4"

\* C20: for every Eastern hour 0..23 with the market open, the current
\* session reported by compute_positions and by
\* get_current_position('session', t) is the session determine_session
\* assigns to that hour: 1 (Asia) for 16..23, 2 (London) for 0..7, 3 (NY) for
\* 8..15.
C20_CurrentSessionAgrees ==
    /\ (op = "compute_positions" /\ ~is_market_closed(args.now)) =>
          RowOf(ret, "Session").Position
              = ToString(determine_session(args.now.h)) \o " of 3"
    /\ (op = "get_current_position" /\ args.prof_key = "session"
            /\ ~ret.closed) =>
          ret.current_position = determine_session(args.current_time.h)

\* the total compute_positions prints for a profile
TotalOf(profile) ==
    CASE profile = "Decennial" -> 10
      [] profile = "Presidential" -> 4
      [] profile = "Quarter" -> 4
      [] profile = "Month" -> 12
      [] profile = "Week Of Year" -> 52
      [] profile = "Week Of Month" -> 4
      [] profile = "Day Of Week" -> 5
      [] profile = "Session" -> 3

\* C30: for every timestamp, each 'p of t' position reported by
\* compute_positions satisfies 1 <= p <= t (Decennial within 10,
\* Presidential within 4, Quarter within 4, Month within 12, Week Of Year
\* within 52, Week Of Month within 4, Day Of Week within 5, Session within 3).
C30_PositionWithinTotal ==
    op = "compute_positions" =>
        \A i \in DOMAIN ret :
            \E p \in 1..TotalOf(ret[i].Profile) :
                ret[i].Position = _ordinal(p, TotalOf(ret[i].Profile))

----------------------------------------------------------------------------
(* Properties of the composite values of the cyclical-profiles tab, checked *)
(* under SpecCyclical                                                       *)

\* C21: the composite values shown in the cyclical-profiles tab are
\* deterministic: two calls of calculate_composite_averages(df, profile_key,
\* metric_col) with identical arguments return identical tables, whatever
\* the wall-clock date and process in which each call is made.
C21_CompositeAveragesDeterministic ==
    [][ (/\ op = "calculate_composite_averages"
         /\ op' = "calculate_composite_averages"
         /\ args' = args) => ret' = ret ]_vars

----------------------------------------------------------------------------
(* Properties of the caller's tables, checked under SpecCaller *)

\* C22: inputs are never mutated: after any sequence of calls to
\* week_of_year.build, session.build, calculate_seasonality and
\* calculate_composite_average, the caller's input tables hold exactly the
\* rows, columns and values (and column types) they held before the calls.
C22_InputsNeverMutated ==
    op \in CallerOps => ret.heap = args.original

\* a second call in a row, a composite average over three instances of a
\* unit whose two rows differ: the call assigned new values to the metric
\* columns of its working table
C22_Witness_SecondCallAssignsColumns ==
    /\ op = "caller:calculate_composite_average"
    /\ args.call = 2
    /\ args.composite_type = "3 Years"
    /\ Len(args.original.history.rows) = 2
    /\ Len(ret.out) = 1
    /\ ret.out[1].AvgReturn = Rat(1, 2)
    /\ ret.out[1].AvgReturn # args.original.history.rows[1].AvgReturn

----------------------------------------------------------------------------
(* Properties of the display order, checked under SpecOrdered *)

\* whether table b holds exactly the rows of table a
IsPermutation(a, b) ==
    /\ Len(a) = Len(b)
    /\ \A r \in Range(a) \cup Range(b) :
           Cardinality({i \in DOMAIN a : a[i] = r})
             = Cardinality({i \in DOMAIN b : b[i] = r})

\* C23: create_ordered_profile_df returns, for every non-empty profile
\* table, exactly the rows of its input (a permutation) sorted in the natural
\* order of the profile type: weeks of the year ascending, and for the
\* session profile in daily view no row of a later weekday before a row of
\* an earlier weekday.
C23_NaturalOrder ==
    (op = "create_ordered_profile_df" /\ args.profile_df # <<>>) =>
        /\ IsPermutation(args.profile_df, ret)
        /\ (args.profile_key = "week_of_year"
             \/ (args.profile_key = "session" /\ args.session_view_mode = "daily"
                 /\ "DayLabel" \in DOMAIN ret[1])) =>
               \A i, j \in DOMAIN ret : i < j => ret[i].Bucket <= ret[j].Bucket

----------------------------------------------------------------------------
(* Properties of the composite averager, checked under SpecComposite *)

\* the periods of the profile of the last call
CallPeriods == get_composite_periods(args.profile_key)

\* the last call asked for one of the profile's named horizons
NamedHorizon ==
    /\ op = "calculate_composite_average"
    /\ args.composite_type \in PeriodNames(CallPeriods)
    /\ args.composite_type # "Min Cycle"

\* the units (values of the label column) occurring in table t
Units(t) == {t[i].Bucket : i \in DOMAIN t}

\* the indices of the rows of unit u in the history
UnitRows(u) == {i \in DOMAIN args.df : args.df[i].Bucket = u}

\* the sum of the (integer) cells of column c over the history rows S
RECURSIVE SumOfCells(_, _)
SumOfCells(S, c) ==
    IF S = {} THEN 0
    ELSE LET i == CHOOSE x \in S : TRUE
         IN  args.df[i][c].n + SumOfCells(S \ {i}, c)

\* C5: for a named horizon with window size N, each unit's value in every
\* listed metric column (that the history has) is the arithmetic mean of the
\* unit's last min(N, k) rows, k being the number of rows the unit has in the
\* history; with k < N it is the mean of all k rows.
C5_TrailingWindowMean ==
    (NamedHorizon /\ args.df # <<>>) =>
        LET N == PeriodOf(CallPeriods, args.composite_type)
        IN  /\ Units(ret) = Units(args.df)
            /\ \A r \in Range(ret) :
                 \A c \in Range(args.metric_columns) \cap DOMAIN r :
                    LET idx  == UnitRows(r.Bucket)
                        k    == Cardinality(idx)
                        m    == IF N < k THEN N ELSE k
                        last == {i \in idx : Cardinality({j \in idx : j > i}) < m}
                    IN  /\ r[c].d > 0
                        /\ r[c].n * m = SumOfCells(last, c) * r[c].d

\* a 10-instance horizon on a unit with 3 instances 2, -1, 0: the mean is 1/3
C5_Witness_ThreeOfTen ==
    /\ NamedHorizon
    /\ PeriodOf(CallPeriods, args.composite_type) = 10
    /\ Len(args.df) = 3
    /\ Units(args.df) = {1}
    /\ "AvgReturn" \in Range(args.metric_columns)
    /\ {args.df[i].AvgReturn : i \in 1..3} = {RInt(2), RInt(-1), RInt(0)}
    /\ Len(ret) = 1
    /\ ret[1].AvgReturn = Rat(1, 3)

\* exactly one row of ret per distinct unit of the history
OneRowPerUnit ==
    /\ Units(ret) = Units(args.df)
    /\ Len(ret) = Cardinality(Units(args.df))

\* C6 as stated: for every horizon name ("Min Cycle" and unknown names
\* included) and every non-empty history, the returned table has exactly one
\* row per distinct unit of the history.
C6_OneRowPerUnit_AnyHorizon ==
    (op = "calculate_composite_average" /\ args.df # <<>>) => OneRowPerUnit

\* C6 amended: for every horizon name among the profile's periods and every
\* non-empty history the returned table has exactly one row per distinct unit;
\* for "Min Cycle" and for a name that is not among the periods the history
\* itself is returned, one row per history row.
C6_OneRowPerUnit_NamedHorizon ==
    (op = "calculate_composite_average" /\ args.df # <<>>) =>
        IF NamedHorizon THEN OneRowPerUnit ELSE ret = args.df

\* a named horizon on a history of three rows of two units: two rows returned
C6_Witness_Deduplicated ==
    /\ NamedHorizon
    /\ Len(args.df) = 3
    /\ Units(args.df) = {1, 2}
    /\ Len(ret) = 2
    /\ OneRowPerUnit

\* C7: for the first of the profile's five named horizons (its min_cycle),
\* calculate_composite_average returns the history unchanged: the same rows
\* with the same metric values.
C7_MinCycleUnchanged ==
    (op = "calculate_composite_average" /\ args.composite_type = CallPeriods[1][1]) =>
        ret = args.df

\* C25: when the history has exactly one row per unit, the returned metric
\* values are identical for every horizon of the profile: each unit's value
\* equals its single input value whatever the window size N, so the table
\* returned is the history itself.
C25_SingleInstanceHorizonsAgree ==
    (/\ op = "calculate_composite_average"
     /\ Len(args.df) = Cardinality(Units(args.df))) =>
        ret = args.df

\* a 10-instance horizon on a history of two units, one row each, with
\* different values: both rows come back as they were
C25_Witness_TenOfOne ==
    /\ NamedHorizon
    /\ PeriodOf(CallPeriods, args.composite_type) = 10
    /\ "AvgReturn" \in Range(args.metric_columns)
    /\ Len(args.df) = 2
    /\ Units(args.df) = {1, 2}
    /\ args.df[1].AvgReturn = RInt(2)
    /\ args.df[2].AvgReturn = RInt(-1)
    /\ ret = args.df

\* the history rows a horizon of N instances averages for unit u
AveragedRows(u, N) ==
    LET idx == UnitRows(u)
        k   == Cardinality(idx)
        m   == IF N < k THEN N ELSE k
    IN  {i \in idx : Cardinality({j \in idx : j > i}) < m}

\* ProbGreen + ProbRed of a row
ProbSum(r) == RAdd(r.ProbGreen, r.ProbRed)

\* C27: composite averaging preserves the probability invariant: if every
\* one of a unit's last N history rows has ProbGreen + ProbRed = 100, the
\* row returned for the unit (ProbGreen and ProbRed among the metric
\* columns) has ProbGreen + ProbRed = 100; the sum never exceeds 100 and is
\* below 100 only when an averaged instance is a zero-filled row.
C27_CompositeKeepsProbabilitySum ==
    (/\ NamedHorizon
     /\ {"ProbGreen", "ProbRed"} \subseteq Range(args.metric_columns)) =>
        \A r \in Range(ret) :
            LET last == AveragedRows(r.Bucket, PeriodOf(CallPeriods, args.composite_type))
            IN  /\ (\A i \in last : ProbSum(args.df[i]) = RInt(100)) =>
                       ProbSum(r) = RInt(100)
                /\ ProbSum(r).n <= 100 * ProbSum(r).d
                /\ ProbSum(r) # RInt(100) =>
                       \E i \in last : /\ args.df[i].ProbGreen = RInt(0)
                                        /\ args.df[i].ProbRed = RInt(0)

\* a unit averaged over 100/0 and 50/50 gives 75/25, while a unit whose only
\* instance is a zero-filled row gives 0/0
C27_Witness_SeventyFiveAndZero ==
    /\ NamedHorizon
    /\ {"ProbGreen", "ProbRed"} \subseteq Range(args.metric_columns)
    /\ PeriodOf(CallPeriods, args.composite_type) = 3
    /\ Len(args.df) = 3
    /\ \E r \in Range(ret) :
          /\ Cardinality(AveragedRows(r.Bucket, 3)) = 2
          /\ r.ProbGreen = RInt(75)
          /\ r.ProbRed = RInt(25)
    /\ \E q \in Range(ret) : ProbSum(q) = RInt(0)

----------------------------------------------------------------------------
(* Properties of the seasonality calculator, checked under SpecSeason *)

\* the date lies after Feb 28 of a leap year
AfterFeb28OfLeapYear(t) ==
    is_leap_year(t.y) /\ (t.m > 2 \/ (t.m = 2 /\ t.d > 28))

\* the calendar day of the year, counted from Jan 1 = 1
CalendarDay(t) == Ordinal(t.y, t.m, t.d) - Ordinal(t.y, 1, 1) + 1

\* C8: calculate_seasonality gives every retained bar a DayOfYear in 1..365:
\* the calendar day of the year, less 1 for a date after Feb 28 of a leap
\* year, so Dec 31 is day 365 in leap and in non-leap years, and no bar gets
\* day 366 or 0.
C8_DayOfYearNormalized ==
    op = "calculate_seasonality" =>
        \A i \in DOMAIN ret :
            /\ ret[i].DayOfYear \in 1..365
            /\ ret[i].DayOfYear =
                  CalendarDay(ret[i].Date)
                  - (IF AfterFeb28OfLeapYear(ret[i].Date) THEN 1 ELSE 0)
            /\ (ret[i].Month = 12 /\ ret[i].Day = 31) => ret[i].DayOfYear = 365

\* Dec 31 of leap year 2024 and of 2023 retained in one table, both day 365
C8_Witness_BothDec31 ==
    /\ op = "calculate_seasonality"
    /\ \E i, j \in DOMAIN ret :
          /\ ret[i].Date = TS(2024, 12, 31, 0)
          /\ ret[j].Date = TS(2023, 12, 31, 0)
          /\ ret[i].DayOfYear = 365
          /\ ret[j].DayOfYear = 365

\* the date is Feb 28 or Feb 29
IsFeb28Or29(t) == t.m = 2 /\ t.d \in {28, 29}

\* C28: under the leap-year adjustment of calculate_seasonality, Feb 28 and
\* Feb 29 of a leap year both get DayOfYear 59, they are the only two
\* distinct dates of one year that share a DayOfYear, and every calendar
\* date other than Feb 29 gets the DayOfYear it has in a non-leap year.
C28_LeapDayShares59 ==
    op = "calculate_seasonality" =>
        \A i \in DOMAIN ret :
            LET t == ret[i].Date
            IN  /\ IsFeb28Or29(t) => ret[i].DayOfYear = 59
                /\ ~(t.m = 2 /\ t.d = 29) =>
                      ret[i].DayOfYear = CalendarDay([t EXCEPT !.y = 2023])
                /\ \A j \in DOMAIN ret :
                      (/\ ret[j].Date.y = t.y
                       /\ DateOf(ret[j].Date) # DateOf(t)
                       /\ ret[j].DayOfYear = ret[i].DayOfYear) =>
                          /\ is_leap_year(t.y)
                          /\ IsFeb28Or29(t) /\ IsFeb28Or29(ret[j].Date)
                /\ (Len(args.df) = 1 /\ t \in CalendarDates) =>
                      \A u \in CalendarDates :
                          (/\ u.y = t.y
                           /\ u # t
                           /\ AdjustedDayOfYear(u) = ret[i].DayOfYear) =>
                              /\ is_leap_year(t.y)
                              /\ IsFeb28Or29(t) /\ IsFeb28Or29(u)

\* Feb 28 and Feb 29 of 2024 retained in one table, both day 59
C28_Witness_Feb28AndFeb29 ==
    /\ op = "calculate_seasonality"
    /\ \E i, j \in DOMAIN ret :
          /\ ret[i].Date = TS(2024, 2, 28, 0)
          /\ ret[j].Date = TS(2024, 2, 29, 0)
          /\ ret[i].DayOfYear = 59
          /\ ret[j].DayOfYear = 59

\* the date years_back years before the cutoff date c
YearsBefore(c, years_back) == [c EXCEPT !.y = c.y - years_back]

\* C9: calculate_seasonality called with a cutoff date retains exactly the
\* bars dated within [cutoffDate - yearsBack years, cutoffDate]: every bar
\* outside is excluded and every bar inside is retained.
C9_LookbackWindow ==
    (op = "calculate_seasonality" /\ args.cutoff_date # <<>>) =>
        LET c    == args.cutoff_date[1]
            lo   == Stamp(YearsBefore(c, args.years_back))
            hi   == Stamp(c)
            kept == SelectSeq(args.df, LAMBDA b : lo <= Stamp(b.Date) /\ Stamp(b.Date) <= hi)
        IN  Column(ret, "Date") = Column(kept, "Date")

\* the latest calendar year among the rows of table t
LatestYear(t) == CHOOSE y \in {t[i].Year : i \in DOMAIN t} :
                    \A i \in DOMAIN t : t[i].Year <= y

\* C10: the "YTD" curve of generate_cumulative_returns is built from only
\* the bars of the most recent calendar year present in the annotated input:
\* it holds that year's rows in ascending DayOfYear, and its
\* CumulativeReturn is the running sum of Return over them.
C10_YtdFromMostRecentYear ==
    (op = "generate_cumulative_returns" /\ args.df # <<>>) =>
        /\ "YTD" \in DOMAIN ret
        /\ LET ytd  == ret["YTD"]
               rows == SelectSeq(args.df, LAMBDA r : r.Year = LatestYear(args.df))
           IN  /\ Len(ytd) = Len(rows)
               /\ \A i \in DOMAIN ytd : ytd[i].Year = LatestYear(args.df)
               /\ \A i, j \in DOMAIN ytd :
                     i < j => ytd[i].DayOfYear <= ytd[j].DayOfYear
               /\ Column(ytd, "CumulativeReturn") = cumsum(Column(ytd, "Return"))

\* the bars of the last calculate_seasonality call that pass its date filter
PassedFilter ==
    SelectSeq(args.df, LAMBDA b :
        /\ args.cutoff_date # <<>> => Stamp(b.Date) <= Stamp(args.cutoff_date[1])
        /\ b.Date.y >= complete_year - args.years_back)

\* C18: with the close-close method calculate_seasonality gives each bar t
\* the return (Close[t] - Close[t-1]) / Close[t-1] x 100 relative to the
\* preceding bar, and the first bar, whose return is undefined, is dropped:
\* the output has one row fewer than the bars that passed the date filter
\* and no row with an undefined Return.
C18_CloseCloseFirstRowDropped ==
    (op = "calculate_seasonality" /\ args.return_type = "close-close") =>
        LET f == PassedFilter
        IN  /\ Len(ret) = (IF f = <<>> THEN 0 ELSE Len(f) - 1)
            /\ \A i \in DOMAIN ret :
                  /\ ~IsNaN(ret[i].Return)
                  /\ ret[i].Date = f[i + 1].Date
                  /\ ret[i].Return =
                        Rat((f[i + 1].Close - f[i].Close) * 100, f[i].Close)

\* the key of the curve of horizon H in the returned dict
CurveKey(H) == ToString(H) \o "YR"

\* the annotated bars of the years within H of the reference year
HorizonBars(H) == SelectSeq(args.df, LAMBDA r : r.Year >= complete_year - H)

\* the defined Return values among the rows of table t at day-of-year d
ReturnsAt(t, d) ==
    LET at == SelectSeq(t, LAMBDA r : r.DayOfYear = d /\ ~IsNaN(r.Return))
    IN  Column(at, "Return")

\* C11: for each horizon H of the requested list, generate_cumulative_returns
\* produces a curve with exactly one point per DayOfYear occurring among the
\* bars of the years within H of the reference year (config.complete_year),
\* in ascending DayOfYear; the point's Return is the mean Return of those
\* bars at that DayOfYear (over the bars whose Return is defined, undefined
\* when none is) and its CumulativeReturn is the sum of the per-day means up
\* to and including it.
C11_HorizonCurves ==
    op = "generate_cumulative_returns" =>
        \A H \in Range(args.years_list) :
            /\ CurveKey(H) \in DOMAIN ret
            /\ LET curve == ret[CurveKey(H)]
                   bars  == HorizonBars(H)
               IN  /\ {curve[k].DayOfYear : k \in DOMAIN curve}
                         = {bars[i].DayOfYear : i \in DOMAIN bars}
                   /\ \A j, k \in DOMAIN curve :
                         j < k => curve[j].DayOfYear < curve[k].DayOfYear
                   /\ \A k \in DOMAIN curve :
                         LET rs == ReturnsAt(bars, curve[k].DayOfYear)
                         IN  IF rs = <<>>
                             THEN IsNaN(curve[k].Return)
                                  /\ IsNaN(curve[k].CumulativeReturn)
                             ELSE /\ RMul(curve[k].Return, RInt(Len(rs)))
                                        = SeriesSum(rs)
                                  /\ curve[k].CumulativeReturn =
                                        SeriesSum([j \in 1..k |-> curve[j].Return])

\* a five-year curve of two days: Feb 28 with one bar, and Dec 31 with the
\* mean 5/2 of a +10 bar and a -5 bar of two years, its CumulativeReturn the
\* sum of both days' means
C11_Witness_TwoDaysTwoYears ==
    /\ op = "generate_cumulative_returns"
    /\ "5YR" \in DOMAIN ret
    /\ Len(args.df) = 3
    /\ Len(ret["5YR"]) = 2
    /\ ret["5YR"][1].DayOfYear = 59
    /\ ret["5YR"][2].DayOfYear = 365
    /\ ret["5YR"][1].Return = RInt(10)
    /\ ret["5YR"][2].Return = Rat(5, 2)
    /\ ret["5YR"][2].CumulativeReturn = Rat(25, 2)

============================================================================
